---- MODULE Spec2Model ----
(***************************************************************************)
(* Annotation interchange engine of MultiModal-AI-Dataset-Creator:         *)
(* FormatConverter.coco_to_yolo and the coordinate transform it shares     *)
(* with FormatConverter.yolo_to_coco (src/scripts/format_converter.py).    *)
(***************************************************************************)
EXTENDS Integers, Sequences, FiniteSets, TLC

(***************************************************************************)
(* Bounds of the model.                                                    *)
(***************************************************************************)
\* Significand width of the binary floating point numbers of the model.
\* (Python floats have 53 bits; TLC's integers have 32, so the model keeps
\* the IEEE-754 operation semantics, round to nearest even after every
\* operation, on a narrower significand.)
Prec == 8
\* Longest categories list drawn.
MaxCats == 3
\* Longest annotations list drawn.
MaxAnns == 2
\* Longest images list drawn.
MaxImgs == 2
\* Lines of a line file read by yolo_to_coco.
MaxLines == 2
\* Count of the rarest class in the datasets drawn around the imbalance
\* threshold.
MaxMinCount == 2
\* Records of a text or audio annotations file, in the files drawn kind by
\* kind.
MaxSamples == 2
\* Calls made on one AnnotationQAChecker object.
MaxCalls == 3
\* Rename calls made on one DatasetFileRenamer object.
MaxRenames == 2

(***************************************************************************)
(* Binary floating point: a float is <<m, e>>, the number m * 2^e, kept    *)
(* canonical (m odd, or <<0, 0>>) so that equal numbers are equal tuples.  *)
(* The exponent range of a double is never approached by the values here   *)
(* and is not modelled.                                                    *)
(***************************************************************************)
Pow2(n) == 2 ^ n

Abs(n) == IF n < 0 THEN -n ELSE n

RECURSIVE Canon(_, _)
Canon(m, e) ==
    IF m = 0 THEN <<0, 0>>
    ELSE IF m % 2 = 0 THEN Canon(m \div 2, e + 1)
    ELSE <<m, e>>

\* The shift s with 2^(Prec-1) <= (a * 2^s) / d < 2^Prec, for a, d > 0.
RECURSIVE NormShift(_, _, _)
NormShift(a, d, s) ==
    LET num == IF s >= 0 THEN a * Pow2(s) ELSE a
        den == IF s >= 0 THEN d ELSE d * Pow2(-s)
    IN  IF num < den * Pow2(Prec - 1) THEN NormShift(a, d, s + 1)
        ELSE IF num >= den * Pow2(Prec) THEN NormShift(a, d, s - 1)
        ELSE s

\* Round half to even of num / den (num >= 0, den > 0) to an integer.
RoundHalfEven(num, den) ==
    LET q == num \div den
        r == num % den
    IN  IF 2 * r > den \/ (2 * r = den /\ q % 2 = 1) THEN q + 1 ELSE q

\* The float nearest to (n / d) * 2^e, ties to even: the rounding every
\* IEEE-754 operation applies to its exact result.
RoundRat(n, d, e) ==
    IF n = 0 THEN <<0, 0>>
    ELSE LET a   == Abs(n)
             s   == NormShift(a, d, 0)
             num == IF s >= 0 THEN a * Pow2(s) ELSE a
             den == IF s >= 0 THEN d ELSE d * Pow2(-s)
             q   == RoundHalfEven(num, den)
         IN  Canon(IF n < 0 THEN -q ELSE q, e - s)

\* int -> float conversion of an operand (exact for |n| < 2^Prec).
FromInt(n) == RoundRat(n, 1, 0)

FMul(a, b) == RoundRat(a[1] * b[1], 1, a[2] + b[2])

FDiv(a, b) ==
    IF b[1] < 0 THEN RoundRat(-a[1], -b[1], a[2] - b[2])
    ELSE RoundRat(a[1], b[1], a[2] - b[2])

FAdd(a, b) ==
    LET emin == IF a[2] < b[2] THEN a[2] ELSE b[2]
    IN  RoundRat(a[1] * Pow2(a[2] - emin) + b[1] * Pow2(b[2] - emin), 1, emin)

FSub(a, b) == FAdd(a, <<-b[1], b[2]>>)

(***************************************************************************)
(* Decimal numerals: <<D, k>> is the text of the number D * 10^k.          *)
(* repr(float), which an f-string applies, prints the shortest numeral     *)
(* that reads back as the same float (the nearest one among the shortest); *)
(* float(text) reads a numeral as the nearest float.                       *)
(***************************************************************************)
Pow10(n) == 10 ^ n

ParseFloat(t) ==
    IF t[2] >= 0 THEN RoundRat(t[1] * Pow10(t[2]), 1, 0)
    ELSE RoundRat(t[1], Pow10(-t[2]), 0)

\* The k with 10^(nd-1) <= (vn / vd) / 10^k < 10^nd.
RECURSIVE DecExp(_, _, _, _)
DecExp(vn, vd, nd, k) ==
    LET num == IF k >= 0 THEN vn ELSE vn * Pow10(-k)
        den == IF k >= 0 THEN vd * Pow10(k) ELSE vd
    IN  IF num < den * Pow10(nd - 1) THEN DecExp(vn, vd, nd, k - 1)
        ELSE IF num >= den * Pow10(nd) THEN DecExp(vn, vd, nd, k + 1)
        ELSE k

RECURSIVE StripZeros(_, _)
StripZeros(D, k) ==
    IF D = 0 THEN <<0, 0>>
    ELSE IF D % 10 = 0 THEN StripZeros(D \div 10, k + 1)
    ELSE <<D, k>>

RECURSIVE ShortestDigits(_, _, _)
ShortestDigits(a, e, nd) ==
    LET vn  == IF e >= 0 THEN a * Pow2(e) ELSE a
        vd  == IF e >= 0 THEN 1 ELSE Pow2(-e)
        k   == DecExp(vn, vd, nd, 0)
        num == IF k >= 0 THEN vn ELSE vn * Pow10(-k)
        den == IF k >= 0 THEN vd * Pow10(k) ELSE vd
        lo  == num \div den
        glo == ParseFloat(<<lo, k>>) = <<a, e>>
        ghi == ParseFloat(<<lo + 1, k>>) = <<a, e>>
    IN  IF glo \/ ghi
        THEN IF glo /\ (~ghi \/ 2 * (num - lo * den) <= den)
             THEN StripZeros(lo, k)
             ELSE StripZeros(lo + 1, k)
        ELSE ShortestDigits(a, e, nd + 1)

FormatFloat(f) ==
    IF f[1] = 0 THEN <<0, 0>>
    ELSE LET t == ShortestDigits(Abs(f[1]), f[2], 1)
         IN  IF f[1] < 0 THEN <<-t[1], t[2]>> ELSE t

(***************************************************************************)
(* JSON values and Python dictionaries.                                    *)
(* A JSON object is a record whose DOMAIN is the set of keys it carries.   *)
(* A width/height value or default argument is Null (None) or Num(n).      *)
(* A dict is the sequence of its <<key, value>> items in insertion order.  *)
(***************************************************************************)
Null == <<"null">>
Num(n) == <<"num", n>>

\* obj.get(key, default)
Get(obj, key, default) == IF key \in DOMAIN obj THEN obj[key] ELSE default

\* Python truth value of a width/height: None and 0 are false.
Truthy(v) == v # Null /\ v[2] # 0

DictHas(d, k) == \E i \in 1..Len(d) : d[i][1] = k

DictGet(d, k, default) ==
    IF DictHas(d, k)
    THEN d[CHOOSE i \in 1..Len(d) : d[i][1] = k][2]
    ELSE default

\* d[k] = v: a key already present keeps its position and takes the value.
DictSet(d, k, v) ==
    IF DictHas(d, k)
    THEN [i \in 1..Len(d) |-> IF d[i][1] = k THEN <<k, v>> ELSE d[i]]
    ELSE Append(d, <<k, v>>)

DictKeys(d) == [i \in 1..Len(d) |-> d[i][1]]
DictValues(d) == [i \in 1..Len(d) |-> d[i][2]]

\* Path(file_name).stem: a file name is <<directory, stem, suffix>>.
Stem(file_name) == file_name[2]

(***************************************************************************)
(* FormatConverter.coco_to_yolo, step by step.                             *)
(***************************************************************************)
\* categories = {cat['id']: cat['name'] for cat in coco_data.get('categories', [])}
RECURSIVE CategoriesDict(_, _)
CategoriesDict(cats, acc) ==
    IF cats = <<>> THEN acc
    ELSE CategoriesDict(Tail(cats), DictSet(acc, Head(cats).id, Head(cats).name))

\* category_to_id = {name: idx for idx, name in enumerate(categories.values())}
RECURSIVE EnumerateNames(_, _, _)
EnumerateNames(names, i, acc) ==
    IF i > Len(names) THEN acc
    ELSE EnumerateNames(names, i + 1, DictSet(acc, names[i], i - 1))

CategoryToId(cat_dict) == EnumerateNames(DictValues(cat_dict), 1, <<>>)

\* image_annotations: image_id -> the annotations carrying it, in list order.
RECURSIVE GroupByImage(_, _)
GroupByImage(anns, acc) ==
    IF anns = <<>> THEN acc
    ELSE LET ann == Head(anns)
             id  == ann.image_id
         IN  GroupByImage(Tail(anns),
                 IF id \in DOMAIN acc
                 THEN [acc EXCEPT ![id] = Append(@, ann)]
                 ELSE [k \in DOMAIN acc \cup {id} |->
                          IF k = id THEN <<ann>> ELSE acc[k]])

\* ann['image_id'] raises KeyError for an annotation without the key.
GroupRaises(anns) == \E i \in 1..Len(anns) : "image_id" \notin DOMAIN anns[i]

\* Mutant of ResolveDims: a size the record omits falls back to 640 x 480.
ResolveDimsFixedFallback(image, dflt) ==
    <<Get(image, "width", Num(640)), Get(image, "height", Num(480))>>

\* img_width = image.get('width', image_width), the same for height.
ResolveDims(image, dflt) ==
    <<Get(image, "width", dflt[1]), Get(image, "height", dflt[2])>>

\* if not img_width or not img_height: warn and continue
MissingDims(dims) == ~Truthy(dims[1]) \/ ~Truthy(dims[2])

\* ann['bbox'], ann['category_id'] raise KeyError, bbox[3] IndexError.
AnnRaises(ann) ==
    \/ "bbox" \notin DOMAIN ann
    \/ "category_id" \notin DOMAIN ann
    \/ Len(ann.bbox) < 4

\* class_id = category_to_id.get(categories.get(ann['category_id'], 'unknown'), 0)
ClassId(ann, cat_dict, cat_to_id) ==
    DictGet(cat_to_id, DictGet(cat_dict, ann.category_id, "unknown"), 0)

\* Mutant of ToNormalizedCenter: the top-left corner instead of the center.
ToNormalizedTopLeft(bbox, W, H) ==
    <<FDiv(FromInt(bbox[1]), FromInt(W)),
      FDiv(FromInt(bbox[2]), FromInt(H)),
      FDiv(FromInt(bbox[3]), FromInt(W)),
      FDiv(FromInt(bbox[4]), FromInt(H))>>

\* The four floats of a line, bbox = [x, y, width, height], W and H integers.
ToNormalizedCenter(bbox, W, H) ==
    <<FDiv(FAdd(FromInt(bbox[1]), FDiv(FromInt(bbox[3]), FromInt(2))), FromInt(W)),
      FDiv(FAdd(FromInt(bbox[2]), FDiv(FromInt(bbox[4]), FromInt(2))), FromInt(H)),
      FDiv(FromInt(bbox[3]), FromInt(W)),
      FDiv(FromInt(bbox[4]), FromInt(H))>>

\* f"{class_id} {x_center} {y_center} {norm_width} {norm_height}"
YoloLine(ann, W, H, cat_dict, cat_to_id) ==
    LET n == ToNormalizedCenter(ann.bbox, W, H)
    IN  <<ClassId(ann, cat_dict, cat_to_id),
          FormatFloat(n[1]), FormatFloat(n[2]), FormatFloat(n[3]), FormatFloat(n[4])>>

\* The annotations the inner loop visits for an image.
AnnsOf(image, groups) ==
    IF image.id \in DOMAIN groups THEN groups[image.id] ELSE <<>>

YoloLines(image, dims, groups, cat_dict, cat_to_id) ==
    LET g == AnnsOf(image, groups)
    IN  [k \in 1..Len(g) |-> YoloLine(g[k], dims[1][2], dims[2][2], cat_dict, cat_to_id)]

ImageRaises(image, groups) ==
    LET g == AnnsOf(image, groups)
    IN  \E k \in 1..Len(g) : AnnRaises(g[k])

\* What one iteration of the images loop does with an image: "skip" (warn
\* and continue), "raise" (an annotation raises before the file is opened)
\* or "write" the lines to <stem>.txt.
ImageOutcome(image, dflt, groups) ==
    IF MissingDims(ResolveDims(image, dflt)) THEN "skip"
    ELSE IF ImageRaises(image, groups) THEN "raise"
    ELSE "write"

\* Mutant of ToAbsoluteTopLeft: the center is not moved to the corner.
ToAbsoluteCenter(line, W, H) ==
    <<FMul(ParseFloat(line[2]), FromInt(W)),
      FMul(ParseFloat(line[3]), FromInt(H)),
      FMul(ParseFloat(line[4]), FromInt(W)),
      FMul(ParseFloat(line[5]), FromInt(H))>>

\* yolo_to_coco, lines 205-219: the bbox a line gives back for a W x H image.
ToAbsoluteTopLeft(line, W, H) ==
    LET x_center == FMul(ParseFloat(line[2]), FromInt(W))
        y_center == FMul(ParseFloat(line[3]), FromInt(H))
        width    == FMul(ParseFloat(line[4]), FromInt(W))
        height   == FMul(ParseFloat(line[5]), FromInt(H))
    IN  <<FSub(x_center, FDiv(width, FromInt(2))),
          FSub(y_center, FDiv(height, FromInt(2))),
          width,
          height>>

\* The content of classes.txt: one line per key of category_to_id.
ClassesFile(cat_to_id) ==
    LET names == DictKeys(cat_to_id)
    IN  [k \in 1..Len(names) |-> <<names[k]>>]

\* open(path, 'w') and write: the file is created or replaced.
WriteFile(dir, name, content) ==
    [f \in DOMAIN dir \cup {name} |-> IF f = name THEN content ELSE dir[f]]

VARIABLES
    coco_file,          \* the file at coco_json_path: [ok, data]
    default_dims,       \* the arguments <<image_width, image_height>>
    verbose,            \* self.verbose
    pc,                 \* position of the call in coco_to_yolo
    categories,         \* category id -> name
    category_to_id,     \* category name -> class index
    image_annotations,  \* image id -> annotations
    img_idx,            \* position of the images loop
    out_dir,            \* files the call has written to output_dir
    log_calls,          \* messages handed to self.log
    stdout,             \* messages self.log printed
    ret,                \* return value: "pending", "True" or "False"
    rt,                 \* the coordinate transform applied to one bbox
    yolo_in,            \* yolo_to_coco: the arguments and the files they name
    coco_data,          \* yolo_to_coco: the dataset being built
    annotation_id,      \* yolo_to_coco: the id of the next annotation
    txt_todo,           \* yolo_to_coco: the *.txt files the glob has yet to give
    output_file,        \* yolo_to_coco: the content of the file at output_path
    qa_input,           \* AnnotationQAChecker: the annotations file and directory
    results,            \* AnnotationQAChecker: the results dict of the call
    locals,             \* AnnotationQAChecker: the local variables of the call
    datasets,           \* AnnotationQAChecker: the files and directories on disk
    qa_results,         \* AnnotationQAChecker: self.qa_results
    calls,              \* AnnotationQAChecker: the calls made and what they returned
    report,             \* AnnotationQAChecker: the rows of the report file
    files,              \* DatasetFileRenamer: the directory and its backup folder
    rename_log,         \* DatasetFileRenamer: self.rename_log
    last_batch,         \* DatasetFileRenamer: the last rename call, what it found and returned
    start_files         \* DatasetFileRenamer: the directory before the first call

vars == <<coco_file, default_dims, verbose, pc, categories, category_to_id,
          image_annotations, img_idx, out_dir, log_calls, stdout, ret, rt,
          yolo_in, coco_data, annotation_id, txt_todo, output_file,
          qa_input, results, locals, datasets, qa_results, calls, report,
          files, rename_log, last_batch, start_files>>

y2c_vars == <<yolo_in, coco_data, annotation_id, txt_todo, output_file>>

checker_vars == <<datasets, qa_results, calls, report>>

renamer_vars == <<files, rename_log, last_batch, start_files>>

qa_vars == <<qa_input, results, locals, checker_vars, renamer_vars>>

\* No call of yolo_to_coco, no call of a validator, is under way.
Y2CIdle ==
    /\ yolo_in = <<>>
    /\ coco_data = <<>>
    /\ annotation_id = 1
    /\ txt_todo = {}
    /\ output_file = <<>>

ValidatorIdle ==
    /\ qa_input = <<>>
    /\ results = <<>>
    /\ locals = <<>>

\* No checker object, no renamer object, is in use.
CheckerIdle ==
    /\ datasets = <<>>
    /\ qa_results = <<>>
    /\ calls = <<>>
    /\ report = <<>>

RenamerIdle ==
    /\ files = <<>>
    /\ rename_log = <<>>
    /\ last_batch = <<>>
    /\ start_files = <<>>

QAIdle == ValidatorIdle /\ CheckerIdle /\ RenamerIdle

input_vars == <<coco_file, default_dims, verbose>>

CocoData == coco_file.data
Images == Get(CocoData, "images", <<>>)
Annotations == Get(CocoData, "annotations", <<>>)
Categories == Get(CocoData, "categories", <<>>)

\* self.log(message): printed only in verbose mode.
Log(msg) ==
    /\ log_calls' = Append(log_calls, msg)
    /\ stdout' = IF verbose THEN Append(stdout, msg) ELSE stdout

\* except Exception as e: log the error and return False.
Except ==
    /\ Log(<<"Error converting COCO to YOLO">>)
    /\ ret' = "False"
    /\ pc' = "done"

\* Lines 53-56: open and parse the file, create the output directory.
LoadCoco ==
    /\ pc = "load"
    /\ IF coco_file.ok
       THEN /\ pc' = "categories"
            /\ UNCHANGED <<log_calls, stdout, ret>>
       ELSE Except
    /\ UNCHANGED <<input_vars, categories, category_to_id, image_annotations,
                   img_idx, out_dir, rt, y2c_vars, qa_vars>>

\* Lines 58-60: the category mapping.
CreateCategoryMapping ==
    /\ pc = "categories"
    /\ categories' = CategoriesDict(Categories, <<>>)
    /\ category_to_id' = CategoryToId(categories')
    /\ pc' = "group"
    /\ UNCHANGED <<input_vars, image_annotations, img_idx, out_dir, log_calls,
                   stdout, ret, rt, y2c_vars, qa_vars>>

\* Lines 62-68: group annotations by image.
GroupAnnotations ==
    /\ pc = "group"
    /\ IF GroupRaises(Annotations)
       THEN /\ Except
            /\ UNCHANGED image_annotations
       ELSE /\ image_annotations' = GroupByImage(Annotations, <<>>)
            /\ pc' = "images"
            /\ UNCHANGED <<log_calls, stdout, ret>>
    /\ UNCHANGED <<input_vars, categories, category_to_id, img_idx, out_dir, rt, y2c_vars, qa_vars>>

\* Lines 71-100: one iteration of the images loop.
ConvertImage ==
    /\ pc = "images"
    /\ img_idx <= Len(Images)
    /\ LET image == Images[img_idx]
           o     == ImageOutcome(image, default_dims, image_annotations)
       IN  IF o = "skip"
           THEN /\ Log(<<"Warning: Missing dimensions", Stem(image.file_name)>>)
                /\ img_idx' = img_idx + 1
                /\ UNCHANGED <<pc, out_dir, ret>>
           ELSE IF o = "raise"
           THEN /\ Except
                /\ UNCHANGED <<img_idx, out_dir>>
           ELSE /\ out_dir' = WriteFile(out_dir, Stem(image.file_name),
                                  YoloLines(image, ResolveDims(image, default_dims),
                                            image_annotations, categories,
                                            category_to_id))
                /\ img_idx' = img_idx + 1
                /\ UNCHANGED <<pc, log_calls, stdout, ret>>
    /\ UNCHANGED <<input_vars, categories, category_to_id, image_annotations, rt, y2c_vars, qa_vars>>

\* Lines 102-108: the classes file, the success message, return True.
SaveClasses ==
    /\ pc = "images"
    /\ img_idx > Len(Images)
    /\ out_dir' = WriteFile(out_dir, "classes", ClassesFile(category_to_id))
    /\ Log(<<"Successfully converted COCO to YOLO">>)
    /\ ret' = "True"
    /\ pc' = "done"
    /\ UNCHANGED <<input_vars, categories, category_to_id, image_annotations,
                   img_idx, rt, y2c_vars, qa_vars>>

(***************************************************************************)
(* The coordinate transform alone: one bbox normalized as coco_to_yolo     *)
(* does, written as a line, read back and inverted as yolo_to_coco does.   *)
(***************************************************************************)
RTIdle == [pc |-> "idle"]

RTNormalize ==
    /\ rt.pc = "bbox"
    /\ rt' = [rt EXCEPT !.pc = "line",
                        !.line = YoloLine([bbox |-> rt.bbox, category_id |-> 0],
                                          rt.W, rt.H, <<>>, <<>>)]
    /\ UNCHANGED <<coco_file, default_dims, verbose, pc, categories,
                   category_to_id, image_annotations, img_idx, out_dir,
                   log_calls, stdout, ret, y2c_vars, qa_vars>>

RTInvert ==
    /\ rt.pc = "line"
    /\ rt' = [rt EXCEPT !.pc = "back",
                        !.back = ToAbsoluteTopLeft(rt.line, rt.W, rt.H)]
    /\ UNCHANGED <<coco_file, default_dims, verbose, pc, categories,
                   category_to_id, image_annotations, img_idx, out_dir,
                   log_calls, stdout, ret, y2c_vars, qa_vars>>

(***************************************************************************)
(* FormatConverter.yolo_to_coco, step by step.                             *)
(* yolo_dir maps the stem of each *.txt file to its lines.  A line is the  *)
(* sequence of the fields line.strip().split() gives: <<>> for a blank     *)
(* line, the class id and four numerals for a line coco_to_yolo wrote.  A  *)
(* line of a classes file is <<name>>.  images_dir is the set of the       *)
(* <<stem, suffix>> of the files it holds.                                 *)
(***************************************************************************)
c2y_vars == <<coco_file, default_dims, categories, category_to_id,
              image_annotations, img_idx, out_dir>>

\* Line 140: the generic fallback.
GenericClasses == <<"class_0", "class_1", "class_2">>

\* Line 174: the extensions tried, in order.
ImageExtensions == <<".jpg", ".jpeg", ".png", ".bmp">>

\* if classes_file and os.path.exists(classes_file)
ExplicitClasses(in) == in.classes_file.given /\ in.classes_file.exists

\* os.path.exists(os.path.join(yolo_dir, 'classes.txt'))
SidecarClasses(in) == "classes" \in DOMAIN in.yolo_dir

\* [line.strip() for line in f.readlines()]
ClassNames(lines) == [k \in 1..Len(lines) |-> lines[k][1]]

UsesGeneric(in) == ~ExplicitClasses(in) /\ ~SidecarClasses(in)

\* Lines 130-140: the class-name list.
LoadedClasses(in) ==
    IF ExplicitClasses(in) THEN ClassNames(in.classes_file.lines)
    ELSE IF SidecarClasses(in) THEN ClassNames(in.yolo_dir["classes"])
    ELSE GenericClasses

\* Lines 156-161: one category per class name, its id the position.
YoloCategories(classes) ==
    [k \in 1..Len(classes) |->
        [id |-> k - 1, name |-> classes[k], supercategory |-> "object"]]

\* Lines 173-178: the first extension whose file exists, None otherwise.
FindImage(images_dir, image_name) ==
    LET found == {k \in DOMAIN ImageExtensions :
                      <<image_name, ImageExtensions[k]>> \in images_dir}
    IN  IF found = {} THEN Null
        ELSE <<image_name,
               ImageExtensions[CHOOSE k \in found : \A j \in found : k <= j]>>

\* Lines 185-191: img.size, or 640 x 480 when PIL cannot be imported.
ImageSize(in, image_path) ==
    IF in.pil THEN in.image_size[image_path] ELSE <<640, 480>>

\* Mutant of UsableLine: four fields are taken for a line.
UsableFromFour(parts) == Len(parts) >= 4

\* Line 206: len(parts) >= 5.
UsableLine(parts) == Len(parts) >= 5

\* Lines 204-206: the line is not blank and has its fields.
AnnotatedLine(parts) == parts # <<>> /\ UsableLine(parts)

\* float(t) parses the numerals; <<"abc">> is a field it rejects.
IsNumeral(t) == Len(t) = 2

\* Lines 207-211: parts[4] raises IndexError on a shorter list, float()
\* raises ValueError on a field that is no number.
LineRaises(parts) ==
    AnnotatedLine(parts) /\
        (Len(parts) < 5 \/ \E k \in 2..5 : ~IsNumeral(parts[k]))

FileRaises(lines) == \E k \in 1..Len(lines) : LineRaises(lines[k])

\* Lines 207-228: the annotation of one line.
NewAnnotation(parts, id, image_id, W, H) ==
    LET bbox == ToAbsoluteTopLeft(parts, W, H)
    IN  [id |-> id, image_id |-> image_id, category_id |-> parts[1],
         bbox |-> bbox, area |-> FMul(bbox[3], bbox[4]), iscrowd |-> 0]

\* Mutant of IncrementId: the id is not advanced.
KeepId(id) == id

\* Line 229: annotation_id += 1.
IncrementId(id) == id + 1

\* Lines 203-229: the lines of one file, from line k on; acc carries
\* coco_data["annotations"] and annotation_id.
RECURSIVE ReadLines(_, _, _, _, _, _)
ReadLines(lines, k, image_id, W, H, acc) ==
    IF k > Len(lines) THEN acc
    ELSE IF AnnotatedLine(lines[k])
    THEN ReadLines(lines, k + 1, image_id, W, H,
             [annotations |->
                  Append(acc.annotations,
                         NewAnnotation(lines[k], acc.annotation_id, image_id, W, H)),
              annotation_id |-> IncrementId(acc.annotation_id)])
    ELSE ReadLines(lines, k + 1, image_id, W, H, acc)

\* self.log called on each message in turn.
LogAll(msgs) ==
    /\ log_calls' = log_calls \o msgs
    /\ stdout' = IF verbose THEN stdout \o msgs ELSE stdout

\* Lines 238-240, after the messages the try block logged on its way.
Y2CExcept(msgs) ==
    /\ LogAll(Append(msgs, <<"Error converting YOLO to COCO">>))
    /\ ret' = "False"
    /\ pc' = "done"

\* Lines 129-163: the class names, the empty dataset, the categories.
LoadClasses ==
    /\ pc = "classes"
    /\ LogAll(IF UsesGeneric(yolo_in)
              THEN <<(<<"Warning: No classes file found, using generic class names">>)>>
              ELSE <<>>)
    /\ coco_data' = [info |-> "Dataset converted from YOLO format",
                     licenses |-> <<>>,
                     images |-> <<>>,
                     annotations |-> <<>>,
                     categories |-> YoloCategories(LoadedClasses(yolo_in))]
    /\ annotation_id' = 1
    /\ txt_todo' = DOMAIN yolo_in.yolo_dir
    /\ pc' = "txt_files"
    /\ UNCHANGED <<yolo_in, output_file, ret, verbose, c2y_vars, rt, qa_vars>>

\* Lines 166-229: one iteration of the loop over the *.txt files; the glob
\* gives them in any order.
ConvertTxtFile ==
    /\ pc = "txt_files"
    /\ \E txt_file \in txt_todo :
          LET lines      == yolo_in.yolo_dir[txt_file]
              image_path == FindImage(yolo_in.images_dir, txt_file)
              size       == ImageSize(yolo_in, image_path)
              pil_msgs   == IF yolo_in.pil THEN <<>>
                            ELSE <<(<<"PIL not available, using default dimensions">>)>>
              image_id   == Len(coco_data.images)
              read       == ReadLines(lines, 1, image_id, size[1], size[2],
                                [annotations |-> coco_data.annotations,
                                 annotation_id |-> annotation_id])
          IN  IF txt_file = "classes"
              THEN /\ txt_todo' = txt_todo \ {txt_file}
                   /\ UNCHANGED <<coco_data, annotation_id, pc, ret, log_calls, stdout>>
              ELSE IF image_path = Null
              THEN /\ LogAll(<<(<<"Warning: No image found", txt_file>>)>>)
                   /\ txt_todo' = txt_todo \ {txt_file}
                   /\ UNCHANGED <<coco_data, annotation_id, pc, ret>>
              ELSE IF FileRaises(lines)
              THEN \* The dataset is a local of the call, dead after the handler.
                   /\ Y2CExcept(pil_msgs)
                   /\ UNCHANGED <<coco_data, annotation_id, txt_todo>>
              ELSE /\ LogAll(pil_msgs)
                   /\ coco_data' =
                          [coco_data EXCEPT
                              !.images = Append(@, [id |-> image_id,
                                                    width |-> Num(size[1]),
                                                    height |-> Num(size[2]),
                                                    file_name |-> <<"", image_path[1],
                                                                    image_path[2]>>]),
                              !.annotations = read.annotations]
                   /\ annotation_id' = read.annotation_id
                   /\ txt_todo' = txt_todo \ {txt_file}
                   /\ UNCHANGED <<pc, ret>>
    /\ UNCHANGED <<yolo_in, output_file, verbose, c2y_vars, rt, qa_vars>>

\* Lines 231-236: the dataset is written, the call returns True.
SaveCoco ==
    /\ pc = "txt_files"
    /\ txt_todo = {}
    /\ output_file' = coco_data
    /\ LogAll(<<(<<"Successfully converted YOLO to COCO format">>)>>)
    /\ ret' = "True"
    /\ pc' = "done"
    /\ UNCHANGED <<yolo_in, coco_data, annotation_id, txt_todo, verbose,
                   c2y_vars, rt, qa_vars>>

(***************************************************************************)
(* AnnotationQAChecker.validate_image_annotations, step by step.           *)
(* qa_input is the file at annotations_path, [ok, data], and the set       *)
(* images_dir of the file names the directory holds.  A message is a tuple *)
(* of its text and the values formatted into it.                           *)
(***************************************************************************)
converter_vars == <<verbose, log_calls, stdout, ret, c2y_vars, rt, y2c_vars,
                    checker_vars, renamer_vars>>

\* Lines 51-59.
InitialImageResults ==
    [total_images |-> 0, total_annotations |-> 0, missing_images |-> <<>>,
     invalid_bboxes |-> <<>>, class_distribution |-> <<>>, errors |-> <<>>,
     warnings |-> <<>>]

\* Mutant of required_keys: only the images key is looked for.
required_keys_images_only == <<"images">>

\* Line 67.
required_keys == <<"images", "annotations", "categories">>

\* Line 90.
required_fields == <<"id", "image_id", "category_id", "bbox">>

\* Lines 68-71: the first required key the dataset lacks, in a sequence.
MissingKeys(data) == SelectSeq(required_keys, LAMBDA key : key \notin DOMAIN data)

\* Mutant of Failed: the handler swallows the exception and records nothing.
FailedSilently(res, what) == res

\* except Exception as e: results['errors'].append(...), lines 118-119.
Failed(res, what) ==
    [res EXCEPT !.errors = Append(@, <<"Failed to validate", what>>)]

\* Lines 73-78: the totals, then the two mappings; a key or field that is
\* not there raises KeyError at the statement that reads it.
LoadedTotals(data, res) ==
    IF "images" \notin DOMAIN data THEN Failed(res, "image annotations")
    ELSE LET r1 == [res EXCEPT !.total_images = Len(data.images)]
         IN  IF "annotations" \notin DOMAIN data THEN Failed(r1, "image annotations")
             ELSE [r1 EXCEPT !.total_annotations = Len(data.annotations)]

MappingsRaise(data) ==
    \/ \E k \in 1..Len(data.images) :
          ~({"id", "file_name"} \subseteq DOMAIN data.images[k])
    \/ "categories" \notin DOMAIN data
    \/ \E k \in 1..Len(data.categories) :
          ~({"id", "name"} \subseteq DOMAIN data.categories[k])

\* f"{ann.get('id', 'unknown')}"
IdText(ann) == IF "id" \in DOMAIN ann THEN Num(ann.id) ELSE <<"unknown">>

\* Lines 91-94: one error per required field the annotation lacks.
MissingFieldErrors(ann) ==
    LET missing == SelectSeq(required_fields, LAMBDA field : field \notin DOMAIN ann)
    IN  [k \in 1..Len(missing) |->
            <<"Annotation missing field", IdText(ann), missing[k]>>]

\* Lines 98-103: what is wrong with a bbox, "" when nothing is.
BBoxProblem(bbox) ==
    IF Len(bbox) # 4 THEN "bbox must have 4 values"
    ELSE IF \E k \in 1..4 : bbox[k] < 0 THEN "negative bbox values"
    ELSE IF bbox[3] <= 0 \/ bbox[4] <= 0 THEN "zero or negative width/height"
    ELSE ""

\* Lines 88-107 for one annotation: the results and the counter after it,
\* and whether ann['bbox'], ann['id'] or ann['category_id'] raised KeyError.
CheckAnnotation(ann, res, class_counts, category_id_to_name) ==
    LET r1 == [res EXCEPT !.errors = @ \o MissingFieldErrors(ann)]
    IN  IF "bbox" \notin DOMAIN ann
        THEN [results |-> r1, class_counts |-> class_counts, raised |-> TRUE]
        ELSE IF BBoxProblem(ann.bbox) # "" /\ "id" \notin DOMAIN ann
        THEN [results |-> r1, class_counts |-> class_counts, raised |-> TRUE]
        ELSE LET r2 == IF BBoxProblem(ann.bbox) # ""
                       THEN [r1 EXCEPT !.invalid_bboxes =
                                Append(@, <<BBoxProblem(ann.bbox), Num(ann.id)>>)]
                       ELSE r1
             IN  IF "category_id" \notin DOMAIN ann
                 THEN [results |-> r2, class_counts |-> class_counts, raised |-> TRUE]
                 ELSE LET category_name ==
                              DictGet(category_id_to_name, ann.category_id, "unknown")
                      IN  [results |-> r2,
                           class_counts |->
                               DictSet(class_counts, category_name,
                                       DictGet(class_counts, category_name, 0) + 1),
                           raised |-> FALSE]

\* max(class_counts.values()), min(class_counts.values())
MaxCount(counts) ==
    counts[CHOOSE i \in 1..Len(counts) : \A j \in 1..Len(counts) : counts[i][2] >= counts[j][2]][2]
MinCount(counts) ==
    counts[CHOOSE i \in 1..Len(counts) : \A j \in 1..Len(counts) : counts[i][2] <= counts[j][2]][2]

\* Mutant of Imbalanced: the threshold itself counts as imbalance.
ImbalancedFromThreshold(max_count, min_count) == max_count >= min_count * 10

\* Line 115: the 10x imbalance threshold.
Imbalanced(max_count, min_count) == max_count > min_count * 10

\* Lines 61-74: the file is read, the required keys checked, the totals set.
VIALoad ==
    /\ pc = "via_load"
    /\ IF ~qa_input.ok
       THEN /\ results' = Failed(results, "image annotations")
            /\ pc' = "done"
       ELSE IF MissingKeys(qa_input.data) # <<>>
       THEN /\ results' = [results EXCEPT !.errors =
                              Append(@, <<"Missing required key",
                                          Head(MissingKeys(qa_input.data))>>)]
            /\ pc' = "done"
       ELSE /\ results' = LoadedTotals(qa_input.data, results)
            /\ pc' = IF results'.errors # <<>> THEN "done" ELSE "via_mappings"
    /\ UNCHANGED <<qa_input, locals, converter_vars>>

\* Lines 77-78 and 87: the two mappings and the empty counter.
VIAMappings ==
    /\ pc = "via_mappings"
    /\ IF MappingsRaise(qa_input.data)
       THEN /\ results' = Failed(results, "image annotations")
            /\ pc' = "done"
            /\ UNCHANGED locals
       ELSE /\ locals' = [category_id_to_name |->
                              CategoriesDict(qa_input.data.categories, <<>>),
                          img_idx |-> 1, ann_idx |-> 1, class_counts |-> <<>>]
            /\ pc' = "via_loops"
            /\ UNCHANGED results
    /\ UNCHANGED <<qa_input, converter_vars>>

\* Lines 81-84: one iteration of the loop over the images.
VIACheckImage ==
    /\ pc = "via_loops"
    /\ locals.img_idx <= Len(qa_input.data.images)
    /\ LET image_info == qa_input.data.images[locals.img_idx]
       IN  results' = IF image_info.file_name \in qa_input.images_dir
                      THEN results
                      ELSE [results EXCEPT !.missing_images =
                               Append(@, image_info.file_name)]
    /\ locals' = [locals EXCEPT !.img_idx = @ + 1]
    /\ UNCHANGED <<pc, qa_input, converter_vars>>

\* Lines 88-107: one iteration of the loop over the annotations.
VIACheckAnnotation ==
    /\ pc = "via_loops"
    /\ locals.img_idx > Len(qa_input.data.images)
    /\ locals.ann_idx <= Len(qa_input.data.annotations)
    /\ LET after == CheckAnnotation(qa_input.data.annotations[locals.ann_idx],
                                    results, locals.class_counts,
                                    locals.category_id_to_name)
       IN  IF after.raised
           THEN /\ results' = Failed(after.results, "image annotations")
                /\ pc' = "done"
                /\ UNCHANGED locals
           ELSE /\ results' = after.results
                /\ locals' = [locals EXCEPT !.ann_idx = @ + 1,
                                            !.class_counts = after.class_counts]
                /\ UNCHANGED pc
    /\ UNCHANGED <<qa_input, converter_vars>>

\* Lines 109-116: the distribution and the imbalance warning.
FinishImages(res, class_counts) ==
    LET warn == /\ class_counts # <<>>
                /\ Imbalanced(MaxCount(class_counts), MinCount(class_counts))
    IN  [res EXCEPT
            !.class_distribution = class_counts,
            !.warnings =
                IF warn
                THEN Append(@, <<"Significant class imbalance detected",
                                 MaxCount(class_counts), MinCount(class_counts)>>)
                ELSE @]

\* Lines 109-121: the distribution, the imbalance warning, the return.
VIAFinish ==
    /\ pc = "via_loops"
    /\ locals.img_idx > Len(qa_input.data.images)
    /\ locals.ann_idx > Len(qa_input.data.annotations)
    /\ results' = FinishImages(results, locals.class_counts)
    /\ pc' = "done"
    /\ UNCHANGED <<qa_input, locals, converter_vars>>

(***************************************************************************)
(* AnnotationQAChecker.validate_text_annotations and                       *)
(* validate_audio_annotations, step by step.                               *)
(* A string value is Str(chars), chars the sequence of its characters; an  *)
(* empty CSV field is Str(<<>>) in the file and NaN once pandas has read   *)
(* it.  qa_input is the file, [format, ok, records], and for the audio     *)
(* validator the set audio_dir of the file names the directory holds.      *)
(***************************************************************************)
Str(chars) == <<"str", chars>>
NaN == <<"nan">>

IsStr(v) == v[1] = "str"
IsNumber(v) == v[1] \in {"num", "nan"}

\* bool(v): None, '' and 0 are false; NaN is true.
PyTruthy(v) ==
    IF IsStr(v) THEN v[2] # <<>>
    ELSE IF v[1] = "num" THEN v[2] # 0
    ELSE v = NaN

\* str(v) of a string, NaN or None.
PyStr(v) ==
    IF IsStr(v) THEN v[2]
    ELSE IF v = NaN THEN <<"n", "a", "n">>
    ELSE <<"N", "o", "n", "e">>

\* s.strip(): leading and trailing whitespace removed.
RECURSIVE Strip(_)
Strip(chars) ==
    IF chars = <<>> THEN chars
    ELSE IF Head(chars) = " " THEN Strip(Tail(chars))
    ELSE IF chars[Len(chars)] = " " THEN Strip(SubSeq(chars, 1, Len(chars) - 1))
    ELSE chars

\* Mutant of BlankStr: only the empty string is blank.
BlankIfEmpty(v) == IsStr(v) /\ v[2] = <<>>

\* isinstance(v, str) and len(v.strip()) == 0
BlankStr(v) == IsStr(v) /\ Strip(v[2]) = <<>>

\* pd.read_csv: an empty field is read as NaN.
ReadCsv(records) ==
    [k \in 1..Len(records) |->
        [col \in DOMAIN records[k] |->
            IF records[k][col] = Str(<<>>) THEN NaN ELSE records[k][col]]]

\* Lines 133-142.
InitialTextResults ==
    [total_samples |-> 0, missing_text |-> 0, missing_labels |-> 0,
     empty_text |-> 0, label_distribution |-> <<>>, text_length_stats |-> <<>>,
     errors |-> <<>>, warnings |-> <<>>]

\* Lines 213-221.
InitialAudioResults ==
    [total_samples |-> 0, missing_audio_files |-> <<>>,
     missing_transcriptions |-> 0, transcription_length_stats |-> <<>>,
     duration_stats |-> <<>>, errors |-> <<>>, warnings |-> <<>>]

RECURSIVE SumSeq(_)
SumSeq(s) == IF s = <<>> THEN 0 ELSE Head(s) + SumSeq(Tail(s))

Sorted(s) == SortSeq(s, LAMBDA a, b : a < b)

\* Lines 183-188 and 252-257: min, max, mean and median of the lengths.
LengthStats(lengths) ==
    [min |-> Sorted(lengths)[1],
     max |-> Sorted(lengths)[Len(lengths)],
     mean |-> FDiv(FromInt(SumSeq(lengths)), FromInt(Len(lengths))),
     median |-> Sorted(lengths)[(Len(lengths) \div 2) + 1]]

\* Lines 260-265.
DurationStats(durations) ==
    [min |-> Sorted(durations)[1],
     max |-> Sorted(durations)[Len(durations)],
     mean |-> FDiv(FromInt(SumSeq(durations)), FromInt(Len(durations))),
     total |-> SumSeq(durations)]

\* count > total * fraction, the product a float, the comparison exact.
Exceeds(count, total, fraction) ==
    LET f == FMul(FromInt(total), ParseFloat(fraction))
    IN  IF f[2] >= 0 THEN count > f[1] * Pow2(f[2])
        ELSE count * Pow2(-f[2]) > f[1]

\* Lines 164-177 for one item.
CheckSample(item, res, loc) ==
    LET text  == Get(item, "text", Str(<<>>))
        label == Get(item, "label", Str(<<>>))
        r1 == IF ~PyTruthy(text) THEN [res EXCEPT !.missing_text = @ + 1]
              ELSE IF BlankStr(text) THEN [res EXCEPT !.empty_text = @ + 1]
              ELSE res
        l1 == IF PyTruthy(text) /\ ~BlankStr(text)
              THEN [loc EXCEPT !.text_lengths = Append(@, Len(PyStr(text)))]
              ELSE loc
    IN  IF ~PyTruthy(label)
        THEN [results |-> [r1 EXCEPT !.missing_labels = @ + 1], locals |-> l1]
        ELSE [results |-> r1,
              locals |-> [l1 EXCEPT !.label_counts =
                             DictSet(@, PyStr(label), DictGet(@, PyStr(label), 0) + 1)]]

\* Lines 144-160: the file is read by its extension, the samples counted.
VTLoad ==
    /\ pc = "vt_load"
    /\ IF qa_input.format \notin {"csv", "json"}
       THEN /\ results' = [results EXCEPT !.errors =
                              Append(@, <<"Unsupported file format. Use CSV or JSON.">>)]
            /\ pc' = "done"
            /\ UNCHANGED locals
       ELSE IF ~qa_input.ok
       THEN /\ results' = Failed(results, "text annotations")
            /\ pc' = "done"
            /\ UNCHANGED locals
       ELSE /\ locals' = [data |-> IF qa_input.format = "csv"
                                   THEN ReadCsv(qa_input.records)
                                   ELSE qa_input.records,
                          idx |-> 1, text_lengths |-> <<>>, label_counts |-> <<>>]
            /\ results' = [results EXCEPT !.total_samples = Len(qa_input.records)]
            /\ pc' = "vt_loop"
    /\ UNCHANGED <<qa_input, converter_vars>>

\* Lines 162-177: one iteration of the loop over the samples.
VTCheckSample ==
    /\ pc = "vt_loop"
    /\ locals.idx <= Len(locals.data)
    /\ LET after == CheckSample(locals.data[locals.idx], results, locals)
       IN  /\ results' = after.results
           /\ locals' = [after.locals EXCEPT !.idx = @ + 1]
    /\ UNCHANGED <<pc, qa_input, converter_vars>>

\* Lines 179-195: the distribution, the statistics, the two warnings.
FinishText(res, loc) ==
    LET r1 == [res EXCEPT
                  !.label_distribution = loc.label_counts,
                  !.text_length_stats =
                      IF loc.text_lengths # <<>>
                      THEN LengthStats(loc.text_lengths) ELSE @]
        r2 == IF Exceeds(r1.missing_text, r1.total_samples, <<1, -1>>)
              THEN [r1 EXCEPT !.warnings =
                       Append(@, <<"High percentage of missing text",
                                   r1.missing_text, r1.total_samples>>)]
              ELSE r1
    IN  IF Exceeds(r2.missing_labels, r2.total_samples, <<5, -2>>)
        THEN [r2 EXCEPT !.warnings =
                 Append(@, <<"High percentage of missing labels",
                             r2.missing_labels, r2.total_samples>>)]
        ELSE r2

\* Lines 179-200: the distribution, the statistics, the two warnings.
VTFinish ==
    /\ pc = "vt_loop"
    /\ locals.idx > Len(locals.data)
    /\ results' = FinishText(results, locals)
    /\ pc' = "done"
    /\ UNCHANGED <<qa_input, locals, converter_vars>>

\* Line 234: os.path.join raises TypeError on a name that is no string.
RowRaises(row) ==
    LET audio_file == Get(row, "audio_file", Str(<<>>))
    IN  PyTruthy(audio_file) /\ ~IsStr(audio_file)

\* Lines 232-248 for one row.
CheckRow(row, audio_dir, res, loc) ==
    LET audio_file    == Get(row, "audio_file", Str(<<>>))
        transcription == Get(row, "transcription", Str(<<>>))
        duration      == Get(row, "duration", Null)
        r1 == IF PyTruthy(audio_file) /\ audio_file \notin audio_dir
              THEN [res EXCEPT !.missing_audio_files = Append(@, audio_file)]
              ELSE res
        untranscribed == ~PyTruthy(transcription) \/ BlankStr(transcription)
        r2 == IF untranscribed
              THEN [r1 EXCEPT !.missing_transcriptions = @ + 1]
              ELSE r1
        l1 == IF untranscribed THEN loc
              ELSE [loc EXCEPT !.transcription_lengths =
                       Append(@, Len(PyStr(transcription)))]
        l2 == IF duration # Null /\ PyTruthy(duration) /\ IsNumber(duration)
                  /\ duration # NaN /\ duration[2] > 0
              THEN [l1 EXCEPT !.durations = Append(@, duration[2])]
              ELSE l1
    IN  [results |-> r2, locals |-> l2]

\* Lines 223-228: the file is read, the samples counted.
VALoad ==
    /\ pc = "va_load"
    /\ IF ~qa_input.ok
       THEN /\ results' = Failed(results, "audio annotations")
            /\ pc' = "done"
            /\ UNCHANGED locals
       ELSE /\ locals' = [data |-> ReadCsv(qa_input.records), idx |-> 1,
                          transcription_lengths |-> <<>>, durations |-> <<>>]
            /\ results' = [results EXCEPT !.total_samples = Len(qa_input.records)]
            /\ pc' = "va_loop"
    /\ UNCHANGED <<qa_input, converter_vars>>

\* Lines 230-248: one iteration of the loop over the rows.
VACheckRow ==
    /\ pc = "va_loop"
    /\ locals.idx <= Len(locals.data)
    /\ LET row   == locals.data[locals.idx]
           after == CheckRow(row, qa_input.audio_dir, results, locals)
       IN  IF RowRaises(row)
           THEN /\ results' = Failed(results, "audio annotations")
                /\ pc' = "done"
                /\ UNCHANGED locals
           ELSE /\ results' = after.results
                /\ locals' = [after.locals EXCEPT !.idx = @ + 1]
                /\ UNCHANGED pc
    /\ UNCHANGED <<qa_input, converter_vars>>

\* Lines 250-269: the statistics and the missing-audio warning.
FinishAudio(res, loc) ==
    LET r1 == [res EXCEPT
                  !.transcription_length_stats =
                      IF loc.transcription_lengths # <<>>
                      THEN LengthStats(loc.transcription_lengths) ELSE @,
                  !.duration_stats =
                      IF loc.durations # <<>>
                      THEN DurationStats(loc.durations) ELSE @]
    IN  IF Exceeds(Len(r1.missing_audio_files), r1.total_samples, <<5, -2>>)
        THEN [r1 EXCEPT !.warnings =
                 Append(@, <<"High percentage of missing audio files",
                             Len(r1.missing_audio_files), r1.total_samples>>)]
        ELSE r1

\* Lines 250-274: the statistics and the missing-audio warning.
VAFinish ==
    /\ pc = "va_loop"
    /\ locals.idx > Len(locals.data)
    /\ results' = FinishAudio(results, locals)
    /\ pc' = "done"
    /\ UNCHANGED <<qa_input, locals, converter_vars>>

(***************************************************************************)
(* The three validators as functions of their arguments: the call run from *)
(* its first statement to its return.  results is the mapping the call     *)
(* starts from, the literal of lines 51-59, 133-142 or 213-221.            *)
(***************************************************************************)
\* Lines 81-84: the file names of the images the directory lacks.
MissingImages(images, images_dir) ==
    SelectSeq([k \in 1..Len(images) |-> images[k].file_name],
              LAMBDA file_name : file_name \notin images_dir)

\* Lines 88-107: the loop over the annotations, left at the first KeyError.
RECURSIVE AnnotationLoop(_, _, _, _)
AnnotationLoop(anns, res, class_counts, category_id_to_name) ==
    IF anns = <<>>
    THEN [results |-> res, class_counts |-> class_counts, raised |-> FALSE]
    ELSE LET after == CheckAnnotation(Head(anns), res, class_counts, category_id_to_name)
         IN  IF after.raised THEN after
             ELSE AnnotationLoop(Tail(anns), after.results, after.class_counts,
                                 category_id_to_name)

\* Lines 61-121.
validate_image_annotations(in, res) ==
    IF ~in.ok THEN Failed(res, "image annotations")
    ELSE IF MissingKeys(in.data) # <<>>
    THEN [res EXCEPT !.errors =
             Append(@, <<"Missing required key", Head(MissingKeys(in.data))>>)]
    ELSE IF MappingsRaise(in.data)
    THEN Failed(LoadedTotals(in.data, res), "image annotations")
    ELSE LET r1 == [LoadedTotals(in.data, res) EXCEPT
                       !.missing_images =
                           @ \o MissingImages(in.data.images, in.images_dir)]
             after == AnnotationLoop(in.data.annotations, r1, <<>>,
                                     CategoriesDict(in.data.categories, <<>>))
         IN  IF after.raised THEN Failed(after.results, "image annotations")
             ELSE FinishImages(after.results, after.class_counts)

\* Lines 162-177: the loop over the samples.
RECURSIVE SampleLoop(_, _, _)
SampleLoop(data, res, loc) ==
    IF data = <<>> THEN [results |-> res, locals |-> loc]
    ELSE LET after == CheckSample(Head(data), res, loc)
         IN  SampleLoop(Tail(data), after.results, after.locals)

\* Lines 144-200.
validate_text_annotations(in, res) ==
    IF in.format \notin {"csv", "json"}
    THEN [res EXCEPT !.errors = Append(@, <<"Unsupported file format. Use CSV or JSON.">>)]
    ELSE IF ~in.ok THEN Failed(res, "text annotations")
    ELSE LET data == IF in.format = "csv" THEN ReadCsv(in.records) ELSE in.records
             after == SampleLoop(data, [res EXCEPT !.total_samples = Len(data)],
                                 [text_lengths |-> <<>>, label_counts |-> <<>>])
         IN  FinishText(after.results, after.locals)

\* Lines 230-248: the loop over the rows, left at the first TypeError.
RECURSIVE RowLoop(_, _, _, _)
RowLoop(data, audio_dir, res, loc) ==
    IF data = <<>> THEN [results |-> res, locals |-> loc, raised |-> FALSE]
    ELSE IF RowRaises(Head(data)) THEN [results |-> res, locals |-> loc, raised |-> TRUE]
    ELSE LET after == CheckRow(Head(data), audio_dir, res, loc)
         IN  RowLoop(Tail(data), audio_dir, after.results, after.locals)

\* Lines 223-274.
validate_audio_annotations(in, res) ==
    IF ~in.ok THEN Failed(res, "audio annotations")
    ELSE LET data == ReadCsv(in.records)
             after == RowLoop(data, in.audio_dir, [res EXCEPT !.total_samples = Len(data)],
                              [transcription_lengths |-> <<>>, durations |-> <<>>])
         IN  IF after.raised THEN Failed(after.results, "audio annotations")
             ELSE FinishAudio(after.results, after.locals)

(***************************************************************************)
(* One AnnotationQAChecker object and the calls made on it, each call run  *)
(* from its first statement to its return.  datasets holds what is on      *)
(* disk: the file and directory of each modality.  A config is the set of  *)
(* the keys the caller's dict carries, each naming the file or directory   *)
(* of its modality.  calls keeps, for each call made, its name, its config *)
(* and the value it returned.                                              *)
(***************************************************************************)
function_vars == <<coco_file, default_dims, pc, categories, category_to_id,
                   image_annotations, img_idx, out_dir, ret, rt, y2c_vars,
                   qa_input, results, locals>>

\* The order of the three blocks of lines 332-349.
Modalities == <<"images", "text", "audio">>

\* Lines 332, 339, 346: the keys that make run_full_qa_check validate a
\* modality.
Configured(config, modality) ==
    CASE modality = "images" -> {"image_annotations", "images_dir"} \subseteq config
      [] modality = "text"   -> "text_annotations" \in config
      [] modality = "audio"  -> {"audio_annotations", "audio_dir"} \subseteq config

\* Mutant of InitialResults: a validator goes on from the results its last
\* call left.
LeftoverResults(modality) ==
    LET earlier == SelectSeq(calls, LAMBDA call : call.op = modality)
    IN  IF earlier # <<>> THEN earlier[Len(earlier)].returned
        ELSE CASE modality = "images" -> InitialImageResults
               [] modality = "text"   -> InitialTextResults
               [] modality = "audio"  -> InitialAudioResults

\* The literal each validator binds to its local results when it is called
\* (lines 51-59, 133-142, 213-221).
InitialResults(modality) ==
    CASE modality = "images" -> InitialImageResults
      [] modality = "text"   -> InitialTextResults
      [] modality = "audio"  -> InitialAudioResults

\* The validator of a modality called on what is on disk.
Validate(modality) ==
    CASE modality = "images" ->
             validate_image_annotations(datasets.images, InitialResults(modality))
      [] modality = "text" ->
             validate_text_annotations(datasets.text, InitialResults(modality))
      [] modality = "audio" ->
             validate_audio_annotations(datasets.audio, InitialResults(modality))

\* The keys of a result mapping in the order of its literal.
ResultKeys(modality) ==
    CASE modality = "images" ->
             <<"total_images", "total_annotations", "missing_images",
               "invalid_bboxes", "class_distribution", "errors", "warnings">>
      [] modality = "text" ->
             <<"total_samples", "missing_text", "missing_labels", "empty_text",
               "label_distribution", "text_length_stats", "errors", "warnings">>
      [] modality = "audio" ->
             <<"total_samples", "missing_audio_files", "missing_transcriptions",
               "transcription_length_stats", "duration_stats", "errors", "warnings">>

\* One of the three validators is called by the user of the object.
CallValidator(modality) ==
    /\ pc = "checker"
    /\ Len(calls) < MaxCalls
    /\ calls' = Append(calls, [op |-> modality, config |-> {},
                               returned |-> Validate(modality)])
    /\ UNCHANGED <<datasets, qa_results, report, verbose, log_calls, stdout,
                   function_vars, renamer_vars>>

\* self.qa_results[modality] = ... for each modality validated, in turn.
RECURSIVE StoreResults(_, _)
StoreResults(stored, validated) ==
    IF validated = <<>> THEN stored
    ELSE StoreResults(DictSet(stored, Head(validated), Validate(Head(validated))),
                      Tail(validated))

\* The messages of lines 329-352.
FullCheckMessages(validated) ==
    <<(<<"Starting comprehensive QA check...">>)>>
        \o [k \in 1..Len(validated) |->
               CASE validated[k] = "images" -> <<"Checking image annotations...">>
                 [] validated[k] = "text"   -> <<"Checking text annotations...">>
                 [] validated[k] = "audio"  -> <<"Checking audio annotations...">>]
        \o <<(<<"QA check completed!">>)>>

\* Lines 329-353.  What is returned is self.qa_results itself.
run_full_qa_check(config) ==
    /\ pc = "checker"
    /\ Len(calls) < MaxCalls
    /\ LET validated == SelectSeq(Modalities, LAMBDA m : Configured(config, m))
       IN  /\ qa_results' = StoreResults(qa_results, validated)
           /\ LogAll(FullCheckMessages(validated))
    /\ calls' = Append(calls, [op |-> "run_full_qa_check", config |-> config,
                               returned |-> qa_results'])
    /\ UNCHANGED <<datasets, report, verbose, function_vars, renamer_vars>>

\* Lines 298-304: one row per metric of each stored result; the value is
\* the text str(value) gives, kept as the value it prints.
RECURSIVE ReportRows(_)
ReportRows(stored) ==
    IF stored = <<>> THEN <<>>
    ELSE LET modality == Head(stored)[1]
             result   == Head(stored)[2]
             keys     == ResultKeys(modality)
         IN  [k \in 1..Len(keys) |->
                 [modality |-> modality, metric |-> keys[k],
                  value |-> <<"str", result[keys[k]]>>]]
                 \o ReportRows(Tail(stored))

\* Lines 287-315.  now is datetime.datetime.now().isoformat(); the file is
\* written unless output_path cannot be written.
generate_qa_report(now, project_name, writable) ==
    /\ pc = "checker"
    /\ Len(calls) < MaxCalls
    /\ IF writable
       THEN /\ report' = <<[timestamp |-> now, project_name |-> project_name,
                            qa_version |-> "1.0"]>> \o ReportRows(qa_results)
            /\ LogAll(<<(<<"QA report generated">>)>>)
       ELSE /\ LogAll(<<(<<"Failed to generate QA report">>)>>)
            /\ UNCHANGED report
    /\ calls' = Append(calls, [op |-> "generate_qa_report", config |-> {},
                               returned |-> writable])
    /\ UNCHANGED <<datasets, qa_results, verbose, function_vars, renamer_vars>>

(***************************************************************************)
(* One DatasetFileRenamer object (src/scripts/file_renamer.py) working on  *)
(* one directory, each call run from its first statement to its return.    *)
(* A file name is <<text, index, suffix>>: "img_0002.jpg" is               *)
(* <<"img", 2, ".jpg">> and "a.jpg", which has no index, <<"a", 0, ".jpg">>.*)
(* files.dir maps each name in the directory to its file, a file being     *)
(* known by the name it had at the start; files.backup is the backup       *)
(* folder inside the directory.                                            *)
(***************************************************************************)
\* What no call on a renamer touches.
beside_renamer_vars == <<c2y_vars, rt, y2c_vars, qa_input, results, locals, checker_vars>>

image_extensions == {".jpg", ".jpeg", ".png", ".bmp", ".tiff", ".gif"}
audio_extensions == {".wav", ".mp3", ".flac", ".aac", ".ogg", ".m4a"}

\* suffix.lower()
Lower(suffix) == IF suffix = ".JPG" THEN ".jpg" ELSE suffix

\* The order of the texts and suffixes as strings.
TextOrder == <<"a", "audio", "b", "cat", "dog", "img", "missing", "x">>
SuffixOrder == <<".JPG", ".jpg", ".png", ".wav">>

Rank(order, x) == CHOOSE k \in 1..Len(order) : order[k] = x

\* The order of two file names as paths ('.' sorts before '_').
NameLess(a, b) ==
    \/ Rank(TextOrder, a[1]) < Rank(TextOrder, b[1])
    \/ a[1] = b[1] /\ a[2] < b[2]
    \/ a[1] = b[1] /\ a[2] = b[2] /\ Rank(SuffixOrder, a[3]) < Rank(SuffixOrder, b[3])

\* Lines 77-83: the files of the directory with one of the extensions, sorted.
RECURSIVE SortedNames(_)
SortedNames(names) ==
    IF names = {} THEN <<>>
    ELSE LET first == CHOOSE n \in names : \A m \in names \ {n} : NameLess(n, m)
         IN  <<first>> \o SortedNames(names \ {first})

FilesToRename(dir, extensions) ==
    SortedNames({name \in DOMAIN dir : Lower(name[3]) \in extensions})

\* Mutant of NameTaken: the new name is never looked for.
NameNeverTaken(dir, new_name, old_name) == FALSE

\* Lines 98, 170, 234: new_path.exists() and new_path != file_path.
NameTaken(dir, new_name, old_name) == new_name \in DOMAIN dir /\ new_name # old_name

\* Path.rename: the file takes the new name, replacing a file that has it.
Rename(dir, old_name, new_name) ==
    [name \in (DOMAIN dir \ {old_name}) \cup {new_name} |->
        IF name = new_name THEN dir[old_name] ELSE dir[name]]

\* Lines 45-49: the file is copied into the backup folder under its name.
Backup(backup, dir, name) ==
    [n \in DOMAIN backup \cup {name} |-> IF n = name THEN dir[name] ELSE backup[n]]

\* Lines 102-116 for one file that is to take new_name: the backup, the
\* rename, the mapping and the log entry.
Renamed(acc, old_name, new_name, entry) ==
    [acc EXCEPT !.dir = Rename(acc.dir, old_name, new_name),
                !.backup = Backup(acc.backup, acc.dir, old_name),
                !.mapping = DictSet(acc.mapping, old_name, new_name),
                !.log = Append(acc.log, entry)]

\* Lines 88-119 (and 160-191): the loop over the sorted files.
RECURSIVE SystematicLoop(_, _, _, _, _)
SystematicLoop(todo, prefix, current_index, type, acc) ==
    IF todo = <<>> THEN acc
    ELSE LET old_name == Head(todo)
             new_name == <<prefix, current_index, Lower(old_name[3])>>
         IN  IF NameTaken(acc.dir, new_name, old_name)
             THEN SystematicLoop(Tail(todo), prefix, current_index, type,
                      [acc EXCEPT !.msgs =
                          Append(@, <<"Warning: already exists, skipping", new_name, old_name>>)])
             ELSE SystematicLoop(Tail(todo), prefix, current_index + 1, type,
                      Renamed(acc, old_name, new_name,
                              [old_name |-> old_name, new_name |-> new_name,
                               type |-> type]))

\* Lines 217-255: the loop over the items of category_mapping.
RECURSIVE CategoryLoop(_, _, _)
CategoryLoop(todo, category_counters, acc) ==
    IF todo = <<>> THEN acc
    ELSE LET old_filename == Head(todo)[1]
             category     == Head(todo)[2]
             index        == DictGet(category_counters, category, 0) + 1
             new_name     == <<category, index, old_filename[3]>>
         IN  IF old_filename \notin DOMAIN acc.dir
             THEN CategoryLoop(Tail(todo), category_counters,
                      [acc EXCEPT !.msgs =
                          Append(@, <<"Warning: File not found", old_filename>>)])
             ELSE IF NameTaken(acc.dir, new_name, old_filename)
             THEN CategoryLoop(Tail(todo), DictSet(category_counters, category, index),
                      [acc EXCEPT !.msgs =
                          Append(@, <<"Warning: already exists, skipping",
                                      new_name, old_filename>>)])
             ELSE CategoryLoop(Tail(todo), DictSet(category_counters, category, index),
                      Renamed(acc, old_filename, new_name,
                              [old_name |-> old_filename, new_name |-> new_name,
                               category |-> category, type |-> "category_based"]))

\* What a rename call starts from.
Start == [dir |-> files.dir, backup |-> files.backup, mapping |-> <<>>,
          log |-> rename_log, msgs |-> <<>>]

\* The call has run: the directory, the log and what the call returned.
Finished(op, acc, msgs) ==
    /\ files' = [dir |-> acc.dir, backup |-> acc.backup]
    /\ rename_log' = acc.log
    /\ last_batch' = [op |-> op, returned |-> acc.mapping, dir_before |-> files.dir,
                      log_before |-> rename_log, renames |-> last_batch.renames + 1,
                      undone |-> 0]
    /\ LogAll(msgs)
    /\ UNCHANGED <<pc, start_files, verbose, ret, beside_renamer_vars>>

\* The body the two systematic renames share, but for the extensions and
\* the type they log.
Systematic(type, extensions, prefix, start_index) ==
    LET todo == FilesToRename(files.dir, extensions)
        acc  == SystematicLoop(todo, prefix, start_index, type, Start)
    IN  Finished(type, acc,
            <<(<<"Found files to rename", Len(todo), type>>)>> \o acc.msgs
                \o <<(<<"Successfully renamed files", Len(acc.mapping), type>>)>>)

\* Lines 70-126.
rename_images_systematic(prefix, start_index) ==
    /\ pc = "renaming"
    /\ last_batch.renames < MaxRenames
    /\ Systematic("image", image_extensions, prefix, start_index)

\* Lines 142-198.
rename_audio_systematic(prefix, start_index) ==
    /\ pc = "renaming"
    /\ last_batch.renames < MaxRenames
    /\ Systematic("audio", audio_extensions, prefix, start_index)

\* Lines 213-262.
rename_by_category(category_mapping) ==
    /\ pc = "renaming"
    /\ last_batch.renames < MaxRenames
    /\ LET acc == CategoryLoop(category_mapping, <<>>, Start)
       IN  Finished("category_based", acc,
               acc.msgs \o <<(<<"Successfully renamed files by category",
                                Len(acc.mapping)>>)>>)

\* Lines 377-392: the last entry of the log is reverted and removed.
UndoLast(dir, log) ==
    LET operation == log[Len(log)]
    IN  IF operation.new_name \in DOMAIN dir
        THEN Rename(dir, operation.new_name, operation.old_name)
        ELSE dir

\* Lines 369-397.  On an empty log the call returns False; the object is
\* followed no further.
undo_last_rename_batch ==
    /\ pc \in {"renaming", "undoing"}
    /\ IF rename_log = <<>>
       THEN /\ LogAll(<<(<<"No rename operations to undo">>)>>)
            /\ ret' = "False"
            /\ pc' = "done"
            /\ UNCHANGED <<files, rename_log, last_batch>>
       ELSE /\ files' = [files EXCEPT !.dir = UndoLast(files.dir, rename_log)]
            /\ rename_log' = SubSeq(rename_log, 1, Len(rename_log) - 1)
            /\ last_batch' = [last_batch EXCEPT !.undone = @ + 1]
            /\ LogAll(IF rename_log[Len(rename_log)].new_name \in DOMAIN files.dir
                      THEN <<(<<"Reverted", rename_log[Len(rename_log)].new_name,
                                rename_log[Len(rename_log)].old_name>>)>>
                      ELSE <<>>)
            /\ ret' = "True"
            /\ pc' = "undoing"
    /\ UNCHANGED <<start_files, verbose, beside_renamer_vars>>

(***************************************************************************)
(* Inputs drawn.                                                           *)
(***************************************************************************)
SeqsUpTo(S, n) == UNION {[1..k -> S] : k \in 0..n}

File(stem, suffix) == <<"", stem, suffix>>
StemAt == <<"a", "b", "c", "d">>

Names == {"cat", "dog", "bird", "unknown"}
CatIdAt(i) == 10 + i
\* Ids that no category, no image of a drawn dataset carries.
AbsentCatId == CatIdAt(MaxCats + 2)
AbsentImageId == MaxImgs + 1
BaseCats == <<[id |-> 11, name |-> "cat"], [id |-> 12, name |-> "dog"]>>
BBoxAt(i) == <<i, 2 * i, 2, 4>>

Image(id, file, W, H) ==
    [id |-> id, file_name |-> file, width |-> Num(W), height |-> Num(H)]
Ann(image_id, category_id, bbox) ==
    [image_id |-> image_id, category_id |-> category_id, bbox |-> bbox]
Dataset(imgs, anns, cats) ==
    [images |-> imgs, annotations |-> anns, categories |-> cats]
NoDefault == <<Null, Null>>

\* Categories lists with unique ids and any names, repeated ones included.
NamedCats(names) == [i \in 1..Len(names) |-> [id |-> CatIdAt(i), name |-> names[i]]]

CatLists ==
    {NamedCats(names) : names \in SeqsUpTo(Names, MaxCats)}
        \cup {NamedCats(<<"cat", "dog", "cat", "bird">>)}

\* Every categories list, one image annotated once with each category id
\* a list can hold and once with an id no list holds.
AnnPerCategory ==
    [i \in 1..(MaxCats + 2) |-> Ann(1, CatIdAt(i), BBoxAt(1))]

RegistryInputs ==
    {[ok |-> TRUE, verbose |-> TRUE,
      data |-> Dataset(<<Image(1, File("a", ".jpg"), 8, 4)>>, AnnPerCategory, cats),
      dflt |-> NoDefault] : cats \in CatLists}

\* Width and height of an image record: omitted, null, zero, negative, positive.
DimCases ==
    {<<>>,
     [width |-> Null, height |-> Null],
     [width |-> Num(8)],
     [width |-> Num(0), height |-> Num(4)],
     [width |-> Num(8), height |-> Num(-4)],
     [width |-> Num(8), height |-> Num(4)],
     [width |-> Num(4), height |-> Num(8)]}

DimImageLists ==
    UNION {{[i \in 1..k |->
                [key \in {"id", "file_name"} \cup DOMAIN f[i] |->
                    IF key = "id" THEN i
                    ELSE IF key = "file_name" THEN File(StemAt[i], ".jpg")
                    ELSE f[i][key]]] :
               f \in [1..k -> DimCases]} : k \in 0..MaxImgs}

OneAnnPerImage == [i \in 1..MaxImgs |-> Ann(i, 11, BBoxAt(i))]

DimInputs ==
    {[ok |-> TRUE, verbose |-> v,
      data |-> Dataset(imgs, OneAnnPerImage, BaseCats), dflt |-> d] :
        imgs \in DimImageLists,
        d \in {NoDefault, <<Num(4), Num(4)>>},
        v \in BOOLEAN}

\* Image lists whose file names may share a stem, and annotation lists in
\* any grouping, unmatched image ids included.
FileNames == {File("a", ".jpg"), File("a", ".png"), File("classes", ".jpg")}

GroupImageLists ==
    UNION {{[i \in 1..k |-> Image(i, f[i], 8, 4)] : f \in [1..k -> FileNames]} :
              k \in 0..MaxImgs}

GroupAnnLists ==
    UNION {{[i \in 1..k |-> Ann(f[i], 11, BBoxAt(i))] :
               f \in [1..k -> {1, 2, AbsentImageId}]} : k \in 0..MaxAnns}

GroupInputs ==
    {[ok |-> TRUE, verbose |-> TRUE,
      data |-> Dataset(imgs, anns, BaseCats), dflt |-> NoDefault] :
        imgs \in GroupImageLists, anns \in GroupAnnLists}

\* Boxes and image sizes for the arithmetic.
NumBBoxes ==
    {<<x, y, w, h>> : x \in {0, 1, 10}, y \in {0, 20}, w \in {1, 7, 30}, h \in {3, 40}}
NumSizes == {<<100, 100>>, <<49, 7>>, <<64, 48>>}

NumericInputs ==
    {[ok |-> TRUE, verbose |-> TRUE,
      data |-> Dataset(<<Image(1, File("a", ".jpg"), sz[1], sz[2])>>,
                       <<Ann(1, 11, b)>>, BaseCats),
      dflt |-> NoDefault] : b \in NumBBoxes, sz \in NumSizes}

\* Datasets lacking top-level keys, and annotations lacking fields.
BaseData ==
    Dataset(<<Image(1, File("a", ".jpg"), 8, 4), Image(2, File("b", ".jpg"), 4, 8)>>,
            <<Ann(1, 11, BBoxAt(1)), Ann(2, 12, BBoxAt(2))>>,
            BaseCats)

KeySubsetInputs ==
    {[ok |-> TRUE, verbose |-> v,
      data |-> [key \in K |-> BaseData[key]], dflt |-> NoDefault] :
        K \in SUBSET {"images", "annotations", "categories"},
        v \in BOOLEAN}

BadAnns ==
    {[image_id |-> 1, category_id |-> 11],
     [category_id |-> 11, bbox |-> BBoxAt(1)],
     [image_id |-> 1, bbox |-> BBoxAt(1)],
     Ann(1, 11, <<1, 2, 2>>)}

BadAnnInputs ==
    {[ok |-> TRUE, verbose |-> v,
      data |-> Dataset(BaseData.images, anns, BaseCats), dflt |-> NoDefault] :
        anns \in {<<bad, Ann(2, 12, BBoxAt(2))>> : bad \in BadAnns}
                 \cup {<<Ann(2, 12, BBoxAt(2)), bad>> : bad \in BadAnns},
        v \in BOOLEAN}

\* A file that cannot be opened or is not JSON.
UnreadableInputs ==
    {[ok |-> FALSE, verbose |-> v, data |-> BaseData, dflt |-> NoDefault] :
        v \in BOOLEAN}

Inputs ==
    RegistryInputs \cup DimInputs \cup GroupInputs \cup NumericInputs
        \cup KeySubsetInputs \cup BadAnnInputs \cup UnreadableInputs

C2YStart ==
    /\ pc = "load"
    /\ categories = <<>>
    /\ category_to_id = <<>>
    /\ image_annotations = <<>>
    /\ img_idx = 1
    /\ out_dir = <<>>
    /\ log_calls = <<>>
    /\ stdout = <<>>
    /\ ret = "pending"

\* A converter is constructed and coco_to_yolo is called on a file.
Init ==
    /\ \E in \in Inputs :
          /\ coco_file = [ok |-> in.ok, data |-> in.data]
          /\ default_dims = in.dflt
          /\ verbose = in.verbose
    /\ C2YStart
    /\ rt = RTIdle
    /\ Y2CIdle
    /\ QAIdle

Next ==
    \/ LoadCoco
    \/ CreateCategoryMapping
    \/ GroupAnnotations
    \/ ConvertImage
    \/ SaveClasses

Spec == Init /\ [][Next]_vars

\* The transform applied to one box of one image size.
RTInit ==
    /\ coco_file = [ok |-> TRUE, data |-> BaseData]
    /\ default_dims = NoDefault
    /\ verbose = TRUE
    /\ C2YStart
    /\ \E b \in NumBBoxes, sz \in NumSizes :
          rt = [pc |-> "bbox", bbox |-> b, W |-> sz[1], H |-> sz[2],
                line |-> <<>>, back |-> <<>>]
    /\ Y2CIdle
    /\ QAIdle

RTNext == RTNormalize \/ RTInvert

SpecRoundTrip == RTInit /\ [][RTNext]_vars

(***************************************************************************)
(* Inputs of yolo_to_coco.                                                 *)
(***************************************************************************)
\* "0 0.25 0.5 0.25 0.5" and "1 0.5 0.5 1 1".
LineA == <<0, (<<25, -2>>), (<<5, -1>>), (<<25, -2>>), (<<5, -1>>)>>
LineB == <<1, (<<5, -1>>), (<<5, -1>>), (<<1, 0>>), (<<1, 0>>)>>
\* Lines of three and of four fields, a line with a field that is no number.
ShortLine3 == <<0, (<<25, -2>>), (<<5, -1>>)>>
ShortLine4 == <<1, (<<5, -1>>), (<<5, -1>>), (<<1, 0>>)>>
BadNumberLine == <<0, (<<"abc">>), (<<5, -1>>), (<<25, -2>>), (<<5, -1>>)>>

LineKinds == {LineA, LineB, <<>>, ShortLine4}

NoClassesFile == [given |-> FALSE, exists |-> FALSE, lines |-> <<>>]

ClassesFileArgs ==
    {NoClassesFile,
     [given |-> TRUE, exists |-> TRUE, lines |-> <<(<<"x">>), (<<"y">>)>>],
     [given |-> TRUE, exists |-> FALSE, lines |-> <<>>]}

SizeOfImage(image_path) == IF image_path[1] = "a" THEN <<8, 4>> ELSE <<100, 100>>

YoloInput(classes_file, yolo_dir, images_dir, pil, v) ==
    [verbose |-> v,
     in |-> [classes_file |-> classes_file,
             yolo_dir |-> yolo_dir,
             images_dir |-> images_dir,
             image_size |-> [p \in images_dir |-> SizeOfImage(p)],
             pil |-> pil]]

BothImages == {<<"a", ".jpg">>, <<"b", ".png">>}

\* Where the class names come from.
ClassSourceInputs ==
    {YoloInput(cf, dir, {<<"a", ".jpg">>}, TRUE, v) :
        cf \in ClassesFileArgs,
        dir \in {[a |-> <<LineA>>],
                 [a |-> <<LineA>>, classes |-> <<(<<"cat">>), (<<"dog">>)>>]},
        v \in BOOLEAN}

\* Lines of every kind in one file, beside a second file.
LineInputs ==
    {YoloInput(NoClassesFile, [a |-> la, b |-> lb], BothImages, TRUE, TRUE) :
        la \in SeqsUpTo(LineKinds, MaxLines),
        lb \in {<<LineB>>, <<ShortLine3, LineA>>, <<>>}}

\* Which image a line file finds, and whether PIL can be imported.
ImageDirInputs ==
    {YoloInput(NoClassesFile, [a |-> <<LineA>>, b |-> <<LineB, LineA>>], dir, pil, TRUE) :
        dir \in {{}, {<<"a", ".png">>}, {<<"a", ".png">>, <<"a", ".jpg">>},
                 {<<"a", ".bmp">>, <<"b", ".jpeg">>}, {<<"a", ".gif">>}},
        pil \in BOOLEAN}

\* A line float() rejects.
BadNumberInputs ==
    {YoloInput(NoClassesFile, [a |-> <<LineA, BadNumberLine>>, b |-> <<LineB>>],
               BothImages, pil, v) :
        pil \in BOOLEAN, v \in BOOLEAN}

\* "3 0.5 0.5 1 1": a class index that a list of three names does not have.
LineOfClass3 == <<3, (<<5, -1>>), (<<5, -1>>), (<<1, 0>>), (<<1, 0>>)>>

\* Class indices within and beyond the class list loaded.
ClassRangeInputs ==
    {YoloInput(cf, [a |-> <<LineA, l>>], {<<"a", ".jpg">>}, TRUE, TRUE) :
        cf \in {NoClassesFile, [given |-> TRUE, exists |-> TRUE, lines |-> <<(<<"x">>)>>]},
        l \in {LineB, LineOfClass3}}

Y2CInputs ==
    ClassSourceInputs \cup LineInputs \cup ImageDirInputs \cup BadNumberInputs
        \cup ClassRangeInputs

\* No call of coco_to_yolo is under way.
C2YIdle ==
    /\ coco_file = [ok |-> FALSE, data |-> <<>>]
    /\ default_dims = NoDefault
    /\ categories = <<>>
    /\ category_to_id = <<>>
    /\ image_annotations = <<>>
    /\ img_idx = 1
    /\ out_dir = <<>>

\* A converter is constructed and yolo_to_coco is called on a directory.
Y2CInit ==
    /\ \E i \in Y2CInputs :
          /\ yolo_in = i.in
          /\ verbose = i.verbose
    /\ coco_data = <<>>
    /\ annotation_id = 1
    /\ txt_todo = {}
    /\ output_file = <<>>
    /\ pc = "classes"
    /\ log_calls = <<>>
    /\ stdout = <<>>
    /\ ret = "pending"
    /\ C2YIdle
    /\ rt = RTIdle
    /\ QAIdle

Y2CNext == LoadClasses \/ ConvertTxtFile \/ SaveCoco

SpecY2C == Y2CInit /\ [][Y2CNext]_vars

(***************************************************************************)
(* Inputs of validate_image_annotations.                                   *)
(***************************************************************************)
\* No call of a converter is under way and nothing has been logged.
FunctionsIdle ==
    /\ verbose = TRUE
    /\ log_calls = <<>>
    /\ stdout = <<>>
    /\ ret = "pending"
    /\ C2YIdle
    /\ rt = RTIdle
    /\ Y2CIdle

ConverterIdle == FunctionsIdle /\ CheckerIdle /\ RenamerIdle

QAAnn(id, bbox) == [id |-> id, image_id |-> 1, category_id |-> 11, bbox |-> bbox]

Without(ann, field) == [f \in DOMAIN ann \ {field} |-> ann[f]]

\* The annotation of each kind that carries the id.
QAAnnKinds(id) ==
    {QAAnn(id, <<1, 2, 2, 4>>),
     Without(QAAnn(id, <<1, 2, 2, 4>>), "id"),
     Without(QAAnn(id, <<1, 2, 2, 4>>), "image_id"),
     Without(QAAnn(id, <<1, 2, 2, 4>>), "category_id"),
     Without(QAAnn(id, <<1, 2, 2, 4>>), "bbox"),
     Without(QAAnn(id, <<1, 2, 0, 4>>), "id"),
     QAAnn(id, <<1, 2, 2>>),
     QAAnn(id, <<1, 2, 2, 4, 1>>),
     QAAnn(id, <<-1, 2, 2, 4>>),
     QAAnn(id, <<1, 2, 0, 4>>),
     QAAnn(id, <<1, 2, 2, -4>>)}

QAAnnLists ==
    UNION {{anns \in [1..n -> UNION {QAAnnKinds(id) : id \in 1..n}] :
                \A k \in 1..n : anns[k] \in QAAnnKinds(k)} : n \in 0..MaxAnns}

QAImageInput(ok, data, images_dir) == [ok |-> ok, data |-> data, images_dir |-> images_dir]

QAAnnotationInputs ==
    {QAImageInput(TRUE, Dataset(BaseData.images, anns, BaseCats),
                  {File("a", ".jpg"), File("b", ".jpg")}) : anns \in QAAnnLists}

\* a annotations of the first category, then b of the second, then c of a
\* category that is not listed.
CountedAnns(a, b, c) ==
    [k \in 1..(a + b + c) |->
        [id |-> k, image_id |-> 1, bbox |-> <<1, 2, 2, 4>>,
         category_id |-> IF k <= a THEN 11 ELSE IF k <= a + b THEN 12 ELSE AbsentCatId]]

CountCases ==
    {<<0, 0, 0>>, <<100, 5, 0>>, <<50, 5, 0>>, <<11, 2, 1>>, <<10, 2, 1>>}
        \cup {<<a, 0, 0>> : a \in 1..MaxMinCount}
        \cup {<<10 * b + d, b, 0>> : b \in 1..MaxMinCount, d \in {-1, 0, 1}}

QACountInputs ==
    {QAImageInput(TRUE, Dataset(BaseData.images, CountedAnns(c[1], c[2], c[3]), BaseCats),
                  {File("a", ".jpg"), File("b", ".jpg")}) : c \in CountCases}

QAKeySubsetInputs ==
    {QAImageInput(TRUE, [key \in K |-> BaseData[key]], dir) :
        K \in SUBSET {"images", "annotations", "categories"},
        dir \in {{}, {File("a", ".jpg"), File("b", ".jpg")}}}

QAImageDirInputs ==
    {QAImageInput(ok, Dataset(imgs, BaseData.annotations, BaseCats), dir) :
        ok \in BOOLEAN,
        imgs \in {BaseData.images,
                  <<Without(BaseData.images[1], "id"), BaseData.images[2]>>},
        dir \in SUBSET {File("a", ".jpg"), File("b", ".jpg")}}

QAImageInputs ==
    QAAnnotationInputs \cup QACountInputs \cup QAKeySubsetInputs \cup QAImageDirInputs

\* A checker is constructed and validate_image_annotations is called.
VIAInit ==
    /\ qa_input \in QAImageInputs
    /\ results = InitialImageResults
    /\ locals = <<>>
    /\ pc = "via_load"
    /\ ConverterIdle

VIANext == VIALoad \/ VIAMappings \/ VIACheckImage \/ VIACheckAnnotation \/ VIAFinish

SpecQAImage == VIAInit /\ [][VIANext]_vars

(***************************************************************************)
(* Inputs of validate_text_annotations and validate_audio_annotations.     *)
(***************************************************************************)
Hi == Str(<<"h", "i">>)
Abc == Str(<<"a", "b", "c">>)
Spaces == Str(<<" ", " ">>)
Pos == Str(<<"p", "o", "s">>)
Absent == <<"absent">>

\* The record of the fields given; a field that is Absent is not a key.
Record(fields) == [key \in {k \in DOMAIN fields : fields[k] # Absent} |-> fields[key]]

TextRecord(text, label) == Record([text |-> text, label |-> label])

QATextInput(format, ok, records) ==
    [format |-> format, ok |-> ok, records |-> records, audio_dir |-> {}]

JsonTextRecords ==
    {TextRecord(t, l) : t \in {Absent, Null, Str(<<>>), Spaces, Hi, Abc},
                        l \in {Absent, Str(<<>>), Pos}}

\* Every row of a CSV file has every column; an empty field is Str(<<>>).
CsvTextRecords ==
    {TextRecord(t, l) : t \in {Str(<<>>), Spaces, Hi, Abc}, l \in {Str(<<>>), Pos}}

\* n records: the first e with an empty text, the next m without a label.
ExampleRecords(n, e, m, no_label) ==
    [k \in 1..n |->
        TextRecord(IF k <= e THEN Str(<<>>) ELSE IF k % 2 = 0 THEN Hi ELSE Abc,
                   IF e < k /\ k <= e + m THEN no_label ELSE Pos)]

QATextInputs ==
    {QATextInput("json", TRUE, r) : r \in SeqsUpTo(JsonTextRecords, MaxSamples)}
        \cup {QATextInput("csv", TRUE, r) : r \in SeqsUpTo(CsvTextRecords, MaxSamples)}
        \cup {QATextInput("json", TRUE, ExampleRecords(20, c[1], c[2], Absent)) :
                 c \in {<<3, 1>>, <<2, 2>>}}
        \cup {QATextInput("csv", TRUE, ExampleRecords(20, c[1], c[2], Str(<<>>))) :
                 c \in {<<3, 1>>, <<2, 2>>}}
        \cup {QATextInput(f, ok, <<TextRecord(Hi, Pos)>>) :
                 f \in {"csv", "json", "txt"}, ok \in BOOLEAN}

File_x == Str(<<"x">>)
File_y == Str(<<"y">>)

AudioRecord(audio_file, transcription, duration) ==
    Record([audio_file |-> audio_file, transcription |-> transcription,
            duration |-> duration])

\* audio_dir holds the file x and not the file y.
QAAudioInput(ok, records) ==
    [format |-> "csv", ok |-> ok, records |-> records, audio_dir |-> {File_x}]

AudioRecords ==
    {AudioRecord(File_x, Hi, Num(3)),
     AudioRecord(File_y, Abc, Num(0)),
     AudioRecord(Str(<<>>), Hi, Str(<<>>)),
     AudioRecord(File_y, Str(<<>>), Num(3)),
     AudioRecord(File_x, Spaces, Str(<<>>))}

\* n rows, the first m naming the file the directory lacks.
MissingAudioRows(n, m) ==
    [k \in 1..n |-> AudioRecord(IF k <= m THEN File_y ELSE File_x, Hi, Num(3))]

QAAudioInputs ==
    {QAAudioInput(TRUE, r) : r \in SeqsUpTo(AudioRecords, MaxSamples)}
        \cup {QAAudioInput(TRUE, [k \in 1..n |-> AudioRecord(Absent, Hi, Num(3))]) :
                 n \in 1..MaxSamples}
        \cup {QAAudioInput(TRUE, MissingAudioRows(20, m)) : m \in 0..2}
        \cup {QAAudioInput(FALSE, <<>>)}

\* A checker is constructed and validate_text_annotations is called.
VTInit ==
    /\ qa_input \in QATextInputs
    /\ results = InitialTextResults
    /\ locals = <<>>
    /\ pc = "vt_load"
    /\ ConverterIdle

\* A checker is constructed and validate_audio_annotations is called.
VAInit ==
    /\ qa_input \in QAAudioInputs
    /\ results = InitialAudioResults
    /\ locals = <<>>
    /\ pc = "va_load"
    /\ ConverterIdle

QASamplesInit == VTInit \/ VAInit

QASamplesNext ==
    \/ VTLoad
    \/ VTCheckSample
    \/ VTFinish
    \/ VALoad
    \/ VACheckRow
    \/ VAFinish

SpecQASamples == QASamplesInit /\ [][QASamplesNext]_vars

\* A checker is constructed and one of its three validators is called.
QAInit == VIAInit \/ QASamplesInit

QANext == VIANext \/ QASamplesNext

SpecQA == QAInit /\ [][QANext]_vars

(***************************************************************************)
(* Inputs of the calls on one AnnotationQAChecker object.                  *)
(***************************************************************************)
ConfigKeys ==
    {"image_annotations", "images_dir", "text_annotations", "audio_annotations",
     "audio_dir"}

Configs ==
    {{}, {"text_annotations"}, {"image_annotations"},
     {"image_annotations", "images_dir"}, {"audio_annotations", "audio_dir"},
     {"image_annotations", "images_dir", "text_annotations"}, ConfigKeys}

\* Sound files, and files with a record each validator stumbles on.
DatasetsOnDisk ==
    {[images |-> QAImageInput(TRUE, BaseData, {File("a", ".jpg")}),
      text   |-> QATextInput("json", TRUE, <<TextRecord(Hi, Pos), TextRecord(Abc, Absent)>>),
      audio  |-> QAAudioInput(TRUE, <<AudioRecord(File_x, Hi, Num(3))>>)],
     [images |-> QAImageInput(TRUE,
                     Dataset(BaseData.images,
                             <<QAAnn(1, <<1, 2, 0, 4>>), Without(QAAnn(2, <<1, 2, 2, 4>>), "bbox")>>,
                             BaseCats),
                     {}),
      text   |-> QATextInput("csv", TRUE, <<TextRecord(Str(<<>>), Pos)>>),
      audio  |-> QAAudioInput(TRUE, <<AudioRecord(File_y, Spaces, Num(0)),
                                      AudioRecord(Str(<<>>), Hi, Num(3))>>)]}

Timestamps == {"t1", "t2"}

\* A checker is constructed (lines 31-33) over what is on disk.
CheckerInit ==
    /\ datasets \in DatasetsOnDisk
    /\ qa_results = <<>>
    /\ calls = <<>>
    /\ report = <<>>
    /\ pc = "checker"
    /\ FunctionsIdle
    /\ ValidatorIdle
    /\ RenamerIdle

CheckerNext ==
    \/ \E modality \in {"images", "text", "audio"} : CallValidator(modality)
    \/ \E config \in Configs : run_full_qa_check(config)
    \/ \E now \in Timestamps, writable \in BOOLEAN :
          generate_qa_report(now, "MultiModal Dataset", writable)

SpecChecker == CheckerInit /\ [][CheckerNext]_vars

(***************************************************************************)
(* Inputs of the calls on one DatasetFileRenamer object.                   *)
(***************************************************************************)
\* a.jpg, b.JPG, img_0001.png, img_0002.jpg, x.wav
FilePool ==
    {<<"a", 0, ".jpg">>, <<"b", 0, ".JPG">>, <<"img", 1, ".png">>,
     <<"img", 2, ".jpg">>, <<"x", 0, ".wav">>}

\* The mappings handed to rename_by_category, in the order of their items.
CategoryMappings ==
    {<<(<<(<<"a", 0, ".jpg">>), "cat">>), (<<(<<"b", 0, ".JPG">>), "cat">>)>>,
     <<(<<(<<"a", 0, ".jpg">>), "img">>), (<<(<<"img", 2, ".jpg">>), "img">>)>>,
     <<(<<(<<"missing", 0, ".jpg">>), "dog">>), (<<(<<"x", 0, ".wav">>), "dog">>)>>}

\* A renamer is constructed (lines 29-32) beside a directory of files.
RenamerInit ==
    /\ \E names \in SUBSET FilePool :
          files = [dir |-> [name \in names |-> name], backup |-> <<>>]
    /\ start_files = files
    /\ rename_log = <<>>
    /\ last_batch = [op |-> "none", returned |-> <<>>, dir_before |-> files.dir,
                     log_before |-> <<>>, renames |-> 0, undone |-> 0]
    /\ pc = "renaming"
    /\ FunctionsIdle
    /\ ValidatorIdle
    /\ CheckerIdle

RenamerNext ==
    \/ \E start_index \in 1..2 : rename_images_systematic("img", start_index)
    \/ rename_audio_systematic("audio", 1)
    \/ \E category_mapping \in CategoryMappings : rename_by_category(category_mapping)
    \/ undo_last_rename_batch

SpecRenamer == RenamerInit /\ [][RenamerNext]_vars

(***************************************************************************)
(* Vocabulary of the properties.                                           *)
(***************************************************************************)
\* The category mapping of lines 58-60 has been built.
MappingBuilt == pc \in {"group", "images"} \/ (pc = "done" /\ ret = "True")

\* The images loop has passed image i.
Processed(i) == i \in 1..Len(Images) /\ i < img_idx

DimsOf(i) == ResolveDims(Images[i], default_dims)

\* The loop has passed image i and written its line file.
Converted(i) == Processed(i) /\ ~MissingDims(DimsOf(i))

StemOf(i) == Stem(Images[i].file_name)

\* No later write of the call has replaced the line file of image i.
KeepsItsFile(i) ==
    /\ Converted(i)
    /\ \A j \in 1..Len(Images) : (j # i /\ Converted(j)) => StemOf(j) # StemOf(i)
    /\ StemOf(i) # "classes"

LineFile(i) == out_dir[StemOf(i)]

\* The annotations of the dataset that carry the id of image i, in list order.
AnnsFor(i) == SelectSeq(Annotations, LAMBDA a : a.image_id = Images[i].id)

CategoryNames == [i \in 1..Len(Categories) |-> Categories[i].name]

\* Rank of the first occurrence of names[i] among the distinct names.
FirstSeenRank(names, i) ==
    LET first == CHOOSE j \in 1..i : names[j] = names[i] /\ \A l \in 1..(j - 1) : names[l] # names[i]
    IN  Cardinality({names[l] : l \in 1..(first - 1)})

\* The keys the specification requires of a dataset.
RequiredKeys == {"images", "annotations", "categories"}

\* A dimension that is absent, zero or negative.
NonPositive(v) == v = Null \/ v[2] <= 0

\* The record gives the dimension: the key is present with a non-null value.
Gives(image, key) == key \in DOMAIN image /\ image[key] # Null

RecordElseDefault(image, dflt) ==
    <<IF Gives(image, "width") THEN image.width ELSE dflt[1],
      IF Gives(image, "height") THEN image.height ELSE dflt[2]>>

PositiveDims(dims) == ~NonPositive(dims[1]) /\ ~NonPositive(dims[2])

(***************************************************************************)
(* C1: the registry built from the categories list gives every name the    *)
(* rank of its first occurrence among the distinct names (cat, dog, cat,   *)
(* bird: cat = 0, dog = 1, bird = 2), so the indices are dense 0..k-1.     *)
(***************************************************************************)
C1_FirstSeenIndices ==
    MappingBuilt =>
        \A i \in 1..Len(Categories) :
            /\ DictHas(category_to_id, CategoryNames[i])
            /\ DictGet(category_to_id, CategoryNames[i], -1)
                   = FirstSeenRank(CategoryNames, i)

(***************************************************************************)
(* C2: in the finished output, the class index written on the line of an   *)
(* annotation with a listed category selects, in classes.txt, the name of  *)
(* that category.                                                          *)
(***************************************************************************)
C2_ClassListResolvesIndex ==
    (pc = "done" /\ ret = "True") =>
        \A i \in 1..Len(Images) :
            KeepsItsFile(i) =>
                \A k \in 1..Len(LineFile(i)) :
                    LET ann == AnnsFor(i)[k]
                        idx == LineFile(i)[k][1]
                    IN  DictHas(categories, ann.category_id) =>
                            /\ idx + 1 \in 1..Len(out_dir["classes"])
                            /\ out_dir["classes"][idx + 1]
                                   = <<DictGet(categories, ann.category_id, "")>>

(***************************************************************************)
(* C3: the line written for a bbox (x, y, w, h) of a W x H image carries   *)
(* the floats nearest to (x + w/2)/W, (y + h/2)/H, w/W and h/H; the bbox   *)
(* (10, 20, 30, 40) of a 100 x 100 image gives 0.25 0.4 0.3 0.4.           *)
(***************************************************************************)
ExactCenterForm(b, W, H) ==
    <<RoundRat(2 * b[1] + b[3], 2 * W, 0),
      RoundRat(2 * b[2] + b[4], 2 * H, 0),
      RoundRat(b[3], W, 0),
      RoundRat(b[4], H, 0)>>

C3_LineCarriesCenterForm ==
    \A i \in 1..Len(Images) :
        (KeepsItsFile(i) /\ PositiveDims(DimsOf(i))) =>
            \A k \in 1..Len(LineFile(i)) :
                LET line == LineFile(i)[k]
                    b    == AnnsFor(i)[k].bbox
                    W    == DimsOf(i)[1][2]
                    H    == DimsOf(i)[2][2]
                IN  /\ <<ParseFloat(line[2]), ParseFloat(line[3]),
                         ParseFloat(line[4]), ParseFloat(line[5])>>
                           = ExactCenterForm(b, W, H)
                    /\ (b = <<10, 20, 30, 40>> /\ W = 100 /\ H = 100) =>
                           <<line[2], line[3], line[4], line[5]>>
                               = <<(<<25, -2>>), (<<4, -1>>), (<<3, -1>>), (<<4, -1>>)>>

C3_Witness ==
    /\ pc = "done"
    /\ ret = "True"
    /\ Len(Images) = 1
    /\ DimsOf(1) = <<Num(100), Num(100)>>
    /\ Len(Annotations) = 1
    /\ Annotations[1].bbox = <<10, 20, 30, 40>>
    /\ "a" \in DOMAIN out_dir
    /\ Len(out_dir["a"]) = 1

Within(f, n, scale) ==
    LET den == IF f[2] < 0 THEN Pow2(-f[2]) ELSE 1
        num == IF f[2] < 0 THEN f[1] ELSE f[1] * Pow2(f[2])
    IN  Abs(num - n * den) * Pow2(Prec) <= 4 * scale * den

C5_MissingKeyAborts ==
    (pc = "done" /\ coco_file.ok /\ ~(RequiredKeys \subseteq DOMAIN CocoData)) =>
        (ret = "False" /\ DOMAIN out_dir = {})

(***************************************************************************)
(* C6: with no caller default, an image record lacking width or height     *)
(* gets no line file and exactly one warning, and the call ends with the   *)
(* files, the return value and the other messages that the same call has   *)
(* on the dataset without the lacking images, wherever they stand.         *)
(***************************************************************************)
Lacking(image) == ~Gives(image, "width") \/ ~Gives(image, "height")

\* The images loop and the end of the call, run on an image list as a whole.
RECURSIVE RunImages(_, _, _, _, _, _)
RunImages(imgs, dflt, groups, cat_dict, cat_to_id, acc) ==
    IF imgs = <<>>
    THEN [dir |-> WriteFile(acc.dir, "classes", ClassesFile(cat_to_id)),
          log |-> Append(acc.log, <<"Successfully converted COCO to YOLO">>),
          ret |-> "True"]
    ELSE LET image == Head(imgs)
             o     == ImageOutcome(image, dflt, groups)
         IN  IF o = "skip"
             THEN RunImages(Tail(imgs), dflt, groups, cat_dict, cat_to_id,
                      [acc EXCEPT !.log = Append(@,
                          <<"Warning: Missing dimensions", Stem(image.file_name)>>)])
             ELSE IF o = "raise"
             THEN [dir |-> acc.dir,
                   log |-> Append(acc.log, <<"Error converting COCO to YOLO">>),
                   ret |-> "False"]
             ELSE RunImages(Tail(imgs), dflt, groups, cat_dict, cat_to_id,
                      [acc EXCEPT !.dir =
                          WriteFile(@, Stem(image.file_name),
                                    YoloLines(image, ResolveDims(image, dflt), groups,
                                              cat_dict, cat_to_id))])

RunWithoutLacking ==
    LET cat_dict == CategoriesDict(Categories, <<>>)
    IN  RunImages(SelectSeq(Images, LAMBDA im : ~Lacking(im)), default_dims,
                  GroupByImage(Annotations, <<>>), cat_dict, CategoryToId(cat_dict),
                  [dir |-> <<>>, log |-> <<>>])

ProcessedLacking == {i \in 1..Len(Images) : Processed(i) /\ Lacking(Images[i])}

WarningsFor(stem) ==
    Len(SelectSeq(log_calls, LAMBDA m : m = <<"Warning: Missing dimensions", stem>>))

C6_LackingImageSkippedAlone ==
    (/\ pc = "done"
     /\ default_dims = NoDefault
     /\ coco_file.ok
     /\ ~GroupRaises(Annotations)) =>
        LET ref == RunWithoutLacking
        IN  /\ out_dir = ref.dir
            /\ ret = ref.ret
            /\ Len(log_calls) = Len(ref.log) + Cardinality(ProcessedLacking)
            /\ \A i \in ProcessedLacking :
                  (\A j \in 1..Len(Images) : j # i => StemOf(j) # StemOf(i)) =>
                      /\ WarningsFor(StemOf(i)) = 1
                      /\ StemOf(i) \notin DOMAIN out_dir

C6_Witness ==
    /\ pc = "done"
    /\ ret = "True"
    /\ default_dims = NoDefault
    /\ Len(Images) >= 2
    /\ Lacking(Images[1])
    /\ ~Lacking(Images[2])
    /\ StemOf(2) \in DOMAIN out_dir
    /\ Len(out_dir[StemOf(2)]) = 1
    /\ StemOf(1) \notin DOMAIN out_dir
    /\ WarningsFor(StemOf(1)) = 1

(***************************************************************************)
(* C7: an image whose resolved width or height is absent, zero or negative *)
(* is skipped with a warning: once the loop has passed it, its warning is  *)
(* logged and no line file was written for it.                             *)
(***************************************************************************)
C7_NonPositiveDimsSkipped ==
    \A i \in 1..Len(Images) :
        (Processed(i) /\ (NonPositive(DimsOf(i)[1]) \/ NonPositive(DimsOf(i)[2]))) =>
            /\ \E m \in 1..Len(log_calls) :
                  log_calls[m] = <<"Warning: Missing dimensions", StemOf(i)>>
            /\ (\A j \in 1..Len(Images) : j # i => StemOf(j) # StemOf(i)) =>
                   StemOf(i) \notin DOMAIN out_dir

(***************************************************************************)
(* C8: a dimension the image record does not give (key omitted or value    *)
(* null) is taken from the caller's default: with positive defaults such   *)
(* an image is converted, with the lines its resolved size gives.          *)
(***************************************************************************)
C8_DefaultDimsUsed ==
    \A i \in 1..Len(Images) :
        LET image == Images[i]
            dims  == RecordElseDefault(image, default_dims)
        IN  (/\ Processed(i)
             /\ ~Gives(image, "width") \/ ~Gives(image, "height")
             /\ PositiveDims(default_dims)
             /\ PositiveDims(dims)
             /\ \A j \in 1..Len(Images) : j # i => StemOf(j) # StemOf(i)) =>
                /\ StemOf(i) \in DOMAIN out_dir
                /\ out_dir[StemOf(i)] =
                       YoloLines(image, dims, image_annotations, categories,
                                 category_to_id)

(***************************************************************************)
(* C9: the line of an annotation whose category_id is in no category       *)
(* carries the index the registry holds for "unknown", and never the index *)
(* of a listed category with another name.                                 *)
(***************************************************************************)
C9_UnknownNotConflated ==
    \A i \in 1..Len(Images) :
        KeepsItsFile(i) =>
            \A k \in 1..Len(LineFile(i)) :
                LET ann == AnnsFor(i)[k]
                    idx == LineFile(i)[k][1]
                IN  ~DictHas(categories, ann.category_id) =>
                        /\ DictHas(category_to_id, "unknown") =>
                               idx = DictGet(category_to_id, "unknown", -1)
                        /\ \A c \in 1..Len(category_to_id) :
                               category_to_id[c][1] # "unknown" =>
                                   category_to_id[c][2] # idx

(***************************************************************************)
(* C10: after a successful call the line file of every converted image     *)
(* holds one line per annotation carrying the image's id, in the order of  *)
(* the annotations list, and nothing else.                                 *)
(***************************************************************************)
C10_LinesFollowAnnotations ==
    (pc = "done" /\ ret = "True") =>
        \A i \in 1..Len(Images) :
            Converted(i) =>
                /\ StemOf(i) \in DOMAIN out_dir
                /\ out_dir[StemOf(i)] =
                       [k \in 1..Len(AnnsFor(i)) |->
                           YoloLine(AnnsFor(i)[k], DimsOf(i)[1][2], DimsOf(i)[2][2],
                                    categories, category_to_id)]

(***************************************************************************)
(* C11: a bad annotation (one lacking bbox, image_id or category_id, or     *)
(* with a bbox of fewer than 4 entries) does not abort the batch: when the  *)
(* call has ended, the class-name list is written and every image with      *)
(* positive dimensions that owns no bad annotation has its line file.       *)
(***************************************************************************)
BadAnnotation(a) ==
    \/ ~({"image_id", "category_id", "bbox"} \subseteq DOMAIN a)
    \/ Len(a.bbox) < 4

OwnsBadAnnotation(i) ==
    \E k \in 1..Len(Annotations) :
        /\ BadAnnotation(Annotations[k])
        /\ "image_id" \in DOMAIN Annotations[k]
        /\ Annotations[k].image_id = Images[i].id

C11_BadAnnotationKeepsBatch ==
    (pc = "done" /\ coco_file.ok
        /\ \E k \in 1..Len(Annotations) : BadAnnotation(Annotations[k])) =>
        /\ "classes" \in DOMAIN out_dir
        /\ \A i \in 1..Len(Images) :
               (PositiveDims(DimsOf(i)) /\ ~OwnsBadAnnotation(i)) =>
                   StemOf(i) \in DOMAIN out_dir

(***************************************************************************)
(* C12: the annotations yolo_to_coco appends carry the ids 1, 2, ..., N in *)
(* list order, over all the line files of the call, at every point of the  *)
(* loop and in the file written; each has area = width * height of its     *)
(* bbox and iscrowd 0, the false value of the format.                      *)
(***************************************************************************)
SequentialIds(annotations) ==
    \A k \in 1..Len(annotations) :
        LET a == annotations[k]
        IN  /\ a.id = k
            /\ a.area = FMul(a.bbox[3], a.bbox[4])
            /\ a.iscrowd = 0

C12_AnnotationIdsSequential ==
    /\ pc = "txt_files" =>
           /\ SequentialIds(coco_data.annotations)
           /\ annotation_id = Len(coco_data.annotations) + 1
    /\ (pc = "done" /\ ret = "True") => SequentialIds(output_file.annotations)

C12_Witness ==
    /\ pc = "done"
    /\ ret = "True"
    /\ Len(output_file.images) = 2
    /\ Len(output_file.annotations) >= 3
    /\ \E k \in 1..(Len(output_file.annotations) - 1) :
          /\ output_file.annotations[k].image_id = 0
          /\ output_file.annotations[k + 1].image_id = 1
          /\ output_file.annotations[k + 1].id = k + 1

(***************************************************************************)
(* C13: a non-blank line of fewer than 5 fields is dropped and is no       *)
(* error: when no line of 5 fields holds a field that is no number, the    *)
(* call returns True, every line file with an image has its image record,  *)
(* and the annotations written are those of the lines of 5 fields, file by *)
(* file in line order, numbered without a gap.                             *)
(***************************************************************************)
Malformed(parts) == parts # <<>> /\ Len(parts) < 5

\* The line files the loop converts: all but the classes file, with an image.
Convertible ==
    {f \in DOMAIN yolo_in.yolo_dir :
        f # "classes" /\ FindImage(yolo_in.images_dir, f) # Null}

NumbersParse ==
    \A f \in Convertible :
        \A k \in 1..Len(yolo_in.yolo_dir[f]) :
            LET parts == yolo_in.yolo_dir[f][k]
            IN  Len(parts) >= 5 => \A n \in 2..5 : IsNumeral(parts[n])

\* <<image, parts>> for every line of 5 fields of the files of the images
\* from the j-th on.
RECURSIVE FullLines(_, _)
FullLines(images, j) ==
    IF j > Len(images) THEN <<>>
    ELSE LET full == SelectSeq(yolo_in.yolo_dir[Stem(images[j].file_name)],
                               LAMBDA parts : Len(parts) >= 5)
         IN  [k \in 1..Len(full) |-> <<images[j], full[k]>>]
                 \o FullLines(images, j + 1)

C13_MalformedLineDropped ==
    (pc = "done" /\ NumbersParse) =>
        /\ ret = "True"
        /\ {Stem(output_file.images[j].file_name) :
               j \in 1..Len(output_file.images)} = Convertible
        /\ LET full == FullLines(output_file.images, 1)
           IN  /\ Len(output_file.annotations) = Len(full)
               /\ \A k \in 1..Len(full) :
                     output_file.annotations[k] =
                         NewAnnotation(full[k][2], k, full[k][1].id,
                                       full[k][1].width[2], full[k][1].height[2])

C13_Witness ==
    /\ pc = "done"
    /\ ret = "True"
    /\ Len(output_file.images) = 2
    /\ \E f \in Convertible :
          LET lines == yolo_in.yolo_dir[f]
          IN  /\ Len(lines) = 2
              /\ Malformed(lines[1])
              /\ Len(lines[2]) = 5
    /\ Len(output_file.annotations) >= 2

(***************************************************************************)
(* C14: the class names are those of the explicit file if it is given and  *)
(* exists, else those of the sidecar classes file, else the generic list;  *)
(* and whenever the generic list is used, the warning reaches the caller,  *)
(* whatever the verbose setting of the converter.                          *)
(***************************************************************************)
C14_PlaceholderNeverSilent ==
    pc \in {"txt_files", "done"} =>
        /\ [k \in 1..Len(coco_data.categories) |-> coco_data.categories[k].name]
               = (IF ExplicitClasses(yolo_in)
                  THEN ClassNames(yolo_in.classes_file.lines)
                  ELSE IF SidecarClasses(yolo_in)
                  THEN ClassNames(yolo_in.yolo_dir["classes"])
                  ELSE GenericClasses)
        /\ UsesGeneric(yolo_in) =>
               \E m \in 1..Len(stdout) :
                   stdout[m] = <<"Warning: No classes file found, using generic class names">>

(***************************************************************************)
(* C15: validate_image_annotations on a dataset lacking one of the keys    *)
(* images, annotations, categories returns with errors populated and every *)
(* other field of the results at its initial value, whatever the keys that *)
(* are present hold.                                                       *)
(***************************************************************************)
C15_MissingKeyReturnsEmpty ==
    (pc = "done" /\ qa_input.ok /\ ~(RequiredKeys \subseteq DOMAIN qa_input.data)) =>
        /\ results.errors # <<>>
        /\ [results EXCEPT !.errors = <<>>] = InitialImageResults

C15_Witness ==
    /\ pc = "done"
    /\ qa_input.ok
    /\ "images" \in DOMAIN qa_input.data
    /\ Len(qa_input.data.images) > 0
    /\ "annotations" \notin DOMAIN qa_input.data
    /\ results.errors = <<(<<"Missing required key", "annotations">>)>>

(***************************************************************************)
(* C16: invalid_bboxes holds one entry for every annotation that lacks a   *)
(* required field, or whose bbox has not exactly 4 entries, or a negative  *)
(* entry, or width <= 0 or height <= 0, in the order of the annotations,   *)
(* and no entry for any other annotation.                                  *)
(***************************************************************************)
ViolatesBBoxRules(ann) ==
    \/ ~({"id", "image_id", "category_id", "bbox"} \subseteq DOMAIN ann)
    \/ Len(ann.bbox) # 4
    \/ \E k \in 1..4 : ann.bbox[k] < 0
    \/ ann.bbox[3] <= 0
    \/ ann.bbox[4] <= 0

C16_ViolationsInInvalidBBoxes ==
    (/\ pc = "done"
     /\ qa_input.ok
     /\ RequiredKeys \subseteq DOMAIN qa_input.data
     /\ ~MappingsRaise(qa_input.data)) =>
        LET bad == SelectSeq(qa_input.data.annotations, ViolatesBBoxRules)
        IN  /\ Len(results.invalid_bboxes) = Len(bad)
            /\ \A k \in 1..Len(bad) :
                  "id" \in DOMAIN bad[k] =>
                      results.invalid_bboxes[k][2] = Num(bad[k].id)

(***************************************************************************)
(* C17: the class-imbalance warning is in the results exactly when the     *)
(* class distribution is not empty and its largest count is more than 10   *)
(* times its smallest ({cat: 100, dog: 5} warns, {cat: 50, dog: 5} does    *)
(* not, one class or none does not); the distribution of a completed       *)
(* validation counts the annotations of each category name.                *)
(***************************************************************************)
ImbalanceWarned ==
    \E m \in 1..Len(results.warnings) :
        results.warnings[m][1] = "Significant class imbalance detected"

\* Every annotation passes lines 88-107 without a KeyError.
AnnotationsComplete ==
    /\ qa_input.ok
    /\ RequiredKeys \subseteq DOMAIN qa_input.data
    /\ ~MappingsRaise(qa_input.data)
    /\ \A k \in 1..Len(qa_input.data.annotations) :
          {"id", "category_id", "bbox"} \subseteq DOMAIN qa_input.data.annotations[k]

NameOfCategory(ann) ==
    IF \E c \in 1..Len(qa_input.data.categories) :
           qa_input.data.categories[c].id = ann.category_id
    THEN qa_input.data.categories[
             CHOOSE c \in 1..Len(qa_input.data.categories) :
                 qa_input.data.categories[c].id = ann.category_id].name
    ELSE "unknown"

C17_ImbalanceWarningStrict ==
    pc = "done" =>
        LET dist == results.class_distribution
        IN  /\ ImbalanceWarned <=>
                   \E i, j \in 1..Len(dist) : dist[i][2] > 10 * dist[j][2]
            /\ AnnotationsComplete =>
                   \A name \in {"cat", "dog", "unknown"} :
                       DictGet(dist, name, 0) =
                           Cardinality({k \in 1..Len(qa_input.data.annotations) :
                               NameOfCategory(qa_input.data.annotations[k]) = name})

C17_Witness ==
    /\ pc = "done"
    /\ results.class_distribution = <<(<<"cat", 50>>), (<<"dog", 5>>)>>
    /\ results.warnings = <<>>

(***************************************************************************)
(* C18: when validate_text_annotations has completed, missing_text is the  *)
(* number of records of the file whose text is absent or the empty string, *)
(* missing_labels the number of records whose label is absent or empty,    *)
(* the missing-text warning is issued exactly when missing_text is more    *)
(* than 10% of total_samples and the missing-label warning exactly when    *)
(* missing_labels is more than 5% of it (20 records, 3 empty texts, 1      *)
(* missing label: 3, 1, the text warning alone).                           *)
(***************************************************************************)
TextCall == "missing_text" \in DOMAIN results

NoValue(rec, key) == key \notin DOMAIN rec \/ rec[key] \in {Null, Str(<<>>)}

CountRecords(Test(_)) ==
    Cardinality({k \in 1..Len(qa_input.records) : Test(qa_input.records[k])})

Warned(text) ==
    \E m \in 1..Len(results.warnings) : results.warnings[m][1] = text

C18_TextDiagnostics ==
    (pc = "done" /\ TextCall /\ results.errors = <<>>) =>
        /\ results.total_samples = Len(qa_input.records)
        /\ results.missing_text = CountRecords(LAMBDA rec : NoValue(rec, "text"))
        /\ results.missing_labels = CountRecords(LAMBDA rec : NoValue(rec, "label"))
        /\ Warned("High percentage of missing text")
               <=> 10 * results.missing_text > results.total_samples
        /\ Warned("High percentage of missing labels")
               <=> 20 * results.missing_labels > results.total_samples

(***************************************************************************)
(* C19: the median of text_length_stats and of transcription_length_stats  *)
(* is the middle element of the sorted lengths, the lower-middle one (the  *)
(* element at 0-based index n/2 - 1) when their number n is even.          *)
(***************************************************************************)
LowerMiddle(lengths) ==
    LET n == Len(lengths)
    IN  Sorted(lengths)[IF n % 2 = 0 THEN n \div 2 ELSE (n + 1) \div 2]

C19_MedianLowerMiddle ==
    pc = "done" =>
        /\ (TextCall /\ results.text_length_stats # <<>>) =>
               results.text_length_stats.median = LowerMiddle(locals.text_lengths)
        /\ (~TextCall /\ results.transcription_length_stats # <<>>) =>
               results.transcription_length_stats.median
                   = LowerMiddle(locals.transcription_lengths)

(***************************************************************************)
(* C20: when validate_audio_annotations has read the file, the             *)
(* missing-audio warning is issued exactly when the records whose audio    *)
(* file is not in the directory, those with an empty or absent audio_file  *)
(* included, are more than 5% of total_samples.                            *)
(***************************************************************************)
NoAudioFile(rec) == NoValue(rec, "audio_file") \/ rec.audio_file \notin qa_input.audio_dir

C20_MissingAudioWarning ==
    (pc = "done" /\ ~TextCall /\ qa_input.ok) =>
        Warned("High percentage of missing audio files")
            <=> 20 * CountRecords(NoAudioFile) > Len(qa_input.records)

(***************************************************************************)
(* C21: in validate_image_annotations an annotation that lacks a required  *)
(* field does not abort the batch: each missing field is recorded in       *)
(* errors, every annotation that has all its fields, before or after it,   *)
(* is counted in class_distribution, and the imbalance check runs on those *)
(* counts.                                                                 *)
(***************************************************************************)
HasAllFields(ann) == {"id", "image_id", "category_id", "bbox"} \subseteq DOMAIN ann

\* The file is read and lines 67-84 pass: the loop over the annotations is
\* entered.
AnnotationLoopEntered ==
    /\ qa_input.ok
    /\ RequiredKeys \subseteq DOMAIN qa_input.data
    /\ ~MappingsRaise(qa_input.data)

C21_BadRecordKeepsValidating ==
    (pc = "done" /\ ~TextCall /\ AnnotationLoopEntered) =>
        LET anns == qa_input.data.annotations
            dist == results.class_distribution
        IN  /\ \A k \in 1..Len(anns) :
                  \A field \in {"id", "image_id", "category_id", "bbox"} \ DOMAIN anns[k] :
                      \E m \in 1..Len(results.errors) :
                          results.errors[m]
                              = <<"Annotation missing field", IdText(anns[k]), field>>
            /\ \A name \in {"cat", "dog", "unknown"} :
                  DictGet(dist, name, 0) >=
                      Cardinality({k \in 1..Len(anns) :
                          /\ HasAllFields(anns[k])
                          /\ NameOfCategory(anns[k]) = name})
            /\ (\E i, j \in 1..Len(dist) : dist[i][2] > 10 * dist[j][2])
                   => ImbalanceWarned

(***************************************************************************)
(* C22: no validator raises past its own boundary.  Whatever the input (a  *)
(* file that cannot be read or parsed, an unsupported extension, records   *)
(* lacking fields), what each of the three validators holds and returns is *)
(* a result mapping with the keys of its kind, and when the check could    *)
(* not complete its errors list is not empty.                              *)
(***************************************************************************)
ImageCall == "total_images" \in DOMAIN results
AudioCall == "missing_audio_files" \in DOMAIN results

\* A statement of lines 97-106 raises KeyError on the annotation.
AnnotationRaises(ann) ==
    \/ "bbox" \notin DOMAIN ann
    \/ "category_id" \notin DOMAIN ann
    \/ "id" \notin DOMAIN ann /\ ViolatesBBoxRules(ann)

\* The input keeps the validator from reaching the end of its checks.
CouldNotComplete ==
    IF ImageCall
    THEN \/ ~qa_input.ok
         \/ ~(RequiredKeys \subseteq DOMAIN qa_input.data)
         \/ MappingsRaise(qa_input.data)
         \/ \E k \in 1..Len(qa_input.data.annotations) :
               AnnotationRaises(qa_input.data.annotations[k])
    ELSE IF TextCall
    THEN qa_input.format \notin {"csv", "json"} \/ ~qa_input.ok
    ELSE \/ ~qa_input.ok
         \/ \E k \in 1..Len(qa_input.records) : RowRaises(ReadCsv(qa_input.records)[k])

\* What the validator holds is a result mapping of one of the three kinds.
ResultMapping ==
    DOMAIN results \in {DOMAIN InitialImageResults, DOMAIN InitialTextResults,
                        DOMAIN InitialAudioResults}

C22_NoValidatorRaises ==
    /\ ResultMapping
    /\ (pc = "done" /\ CouldNotComplete) => results.errors # <<>>

C22_Witness ==
    /\ pc = "done"
    /\ AudioCall
    /\ qa_input.ok
    /\ CouldNotComplete
    /\ results.errors = <<(<<"Failed to validate", "audio annotations">>)>>


(***************************************************************************)
(* C23: re-validation is idempotent.  On one checker object and unchanged  *)
(* files, any two calls of the same validator return the same content,     *)
(* whatever calls were made between them, and so does the validation a     *)
(* run_full_qa_check makes; a validator call leaves the stored results as  *)
(* the run_full_qa_check calls alone made them.                            *)
(***************************************************************************)
ValidatorCall(call) == call.op \in {"images", "text", "audio"}

\* self.qa_results as the run_full_qa_check calls among the calls make it.
RECURSIVE StoredByRuns(_, _)
StoredByRuns(stored, made) ==
    IF made = <<>> THEN stored
    ELSE IF Head(made).op = "run_full_qa_check"
    THEN StoredByRuns(Head(made).returned, Tail(made))
    ELSE StoredByRuns(stored, Tail(made))

LastCall == calls[Len(calls)]

\* generate_qa_report has just written the report.
ReportJustWritten ==
    /\ calls # <<>>
    /\ LastCall.op = "generate_qa_report"
    /\ LastCall.returned

Runs == SelectSeq(calls, LAMBDA call : call.op = "run_full_qa_check")

\* The modalities a run_full_qa_check call validates, in the order it does.
ValidatedBy(call) == SelectSeq(Modalities, LAMBDA m : Configured(call.config, m))

Position(seq, x) == CHOOSE k \in 1..Len(seq) : seq[k] = x

InSeq(seq, x) == \E k \in 1..Len(seq) : seq[k] = x

C24_ReportRowsInValidationOrder ==
    ReportJustWritten =>
        LET rows == Tail(report)
        IN  /\ DOMAIN report[1] = {"timestamp", "project_name", "qa_version"}
            /\ \A k \in 1..Len(rows) : DOMAIN rows[k] = {"modality", "metric", "value"}
            /\ \A s \in 1..Len(qa_results) :
                  \A m \in 1..Len(ResultKeys(qa_results[s][1])) :
                      Cardinality({k \in 1..Len(rows) :
                          /\ rows[k].modality = qa_results[s][1]
                          /\ rows[k].metric = ResultKeys(qa_results[s][1])[m]}) = 1
            /\ \A k \in 1..Len(rows) : DictHas(qa_results, rows[k].modality)
            /\ \A i, j \in 1..Len(rows) :
                  (i < j /\ rows[i].modality = rows[j].modality) =>
                      Position(ResultKeys(rows[i].modality), rows[i].metric)
                          < Position(ResultKeys(rows[j].modality), rows[j].metric)
            /\ Runs # <<>> =>
                  LET validated == ValidatedBy(Runs[Len(Runs)])
                  IN  \A i, j \in 1..Len(rows) :
                          (/\ i < j
                           /\ InSeq(validated, rows[i].modality)
                           /\ InSeq(validated, rows[j].modality)) =>
                              Position(validated, rows[i].modality)
                                  <= Position(validated, rows[j].modality)

(***************************************************************************)
(* C25: the checker holds no state between calls.  What a                  *)
(* run_full_qa_check call returns, and the report generated after it,      *)
(* holds exactly the modalities the config of that call had validated:     *)
(* nothing of a modality that only an earlier call validated.              *)
(***************************************************************************)
SeqToSet(seq) == {seq[k] : k \in 1..Len(seq)}

C25_OnlyLatestRunReturned ==
    /\ \A k \in 1..Len(calls) :
          calls[k].op = "run_full_qa_check" =>
              SeqToSet(DictKeys(calls[k].returned)) = SeqToSet(ValidatedBy(calls[k]))
    /\ (ReportJustWritten /\ Runs # <<>>) =>
          {report[k].modality : k \in 2..Len(report)}
              = SeqToSet(ValidatedBy(Runs[Len(Runs)]))

(***************************************************************************)
(* C27: referential integrity of the dataset yolo_to_coco writes.  The id  *)
(* of each image is its position in the images list and the image_id of   *)
(* each annotation is the id of the image matched to the line file its     *)
(* line came from; the categories are the loaded class names with their    *)
(* positions 0..len(classes)-1 as ids, and the category_id of each         *)
(* annotation is the id of one of them.                                    *)
(***************************************************************************)
C27_ReferentialIntegrity ==
    (pc = "done" /\ ret = "True") =>
        LET images == output_file.images
            full   == FullLines(images, 1)
        IN  /\ \A j \in 1..Len(images) : images[j].id = j - 1
            /\ output_file.categories = YoloCategories(LoadedClasses(yolo_in))
            /\ Len(output_file.annotations) = Len(full)
            /\ \A k \in 1..Len(output_file.annotations) :
                  LET a == output_file.annotations[k]
                  IN  /\ a.image_id = full[k][1].id
                      /\ \E j \in 1..Len(images) : images[j].id = a.image_id
                      /\ \E c \in 1..Len(output_file.categories) :
                            output_file.categories[c].id = a.category_id

(***************************************************************************)
(* C28: coco_to_yolo persists one line file per converted image.  After a  *)
(* successful call no two images with resolved dimensions share a line     *)
(* file, none shares its file with the classes file, and the line files of *)
(* the output directory are as many as those images (file names that       *)
(* differ only in directory or extension, and the stem "classes",          *)
(* included).                                                              *)
(***************************************************************************)
ConvertedImages == {i \in 1..Len(Images) : Converted(i)}

C28_OneLineFilePerImage ==
    (pc = "done" /\ ret = "True") =>
        /\ \A i, j \in ConvertedImages : i # j => StemOf(i) # StemOf(j)
        /\ \A i \in ConvertedImages : StemOf(i) # "classes"
        /\ Cardinality(DOMAIN out_dir \ {"classes"}) = Cardinality(ConvertedImages)

(***************************************************************************)
(* C30: validate_text_annotations counts every sample once per dimension.  *)
(* When it completes without error each record is counted as missing text, *)
(* or as blank text, or its length is measured, and as a missing label or  *)
(* in label_distribution: missing_text + empty_text + the number of        *)
(* measured lengths = total_samples = missing_labels + the sum of the      *)
(* label_distribution counts, and the three text classes are those of the  *)
(* records read.                                                           *)
(***************************************************************************)
\* The text of a record as the loop sees it (line 164).
TextOf(item) == Get(item, "text", Str(<<>>))

CountRead(Test(_)) ==
    Cardinality({k \in 1..Len(locals.data) : Test(locals.data[k])})

\* A string of one or more characters, all of them spaces.
WhitespaceOnly(v) ==
    IsStr(v) /\ v[2] # <<>> /\ \A k \in 1..Len(v[2]) : v[2][k] = " "

C30_EverySampleCountedOnce ==
    (pc = "done" /\ TextCall /\ results.errors = <<>>) =>
        /\ results.total_samples = Len(qa_input.records)
        /\ results.missing_text + results.empty_text + Len(locals.text_lengths)
               = results.total_samples
        /\ results.missing_labels + SumSeq(DictValues(results.label_distribution))
               = results.total_samples
        /\ results.missing_text = CountRead(LAMBDA item : ~PyTruthy(TextOf(item)))
        /\ results.empty_text = CountRead(LAMBDA item : WhitespaceOnly(TextOf(item)))
        /\ results.text_length_stats # <<>> <=> Len(locals.text_lengths) > 0

C30_Witness ==
    /\ pc = "done"
    /\ TextCall
    /\ results.errors = <<>>
    /\ results.total_samples = 20
    /\ results.missing_text = 3
    /\ results.empty_text = 0
    /\ Len(locals.text_lengths) = 17
    /\ results.missing_labels = 1

(***************************************************************************)
(* C26: undo_last_rename_batch undoes the last batch.  After a rename call *)
(* that renamed k >= 1 files, one undo_last_rename_batch call puts all k   *)
(* files back under their old names and takes all k entries of the batch   *)
(* out of the rename log.                                                  *)
(***************************************************************************)
\* One undo call has followed the last rename call.
UndoneOnce == last_batch.op # "none" /\ last_batch.undone = 1

C26_UndoRestoresBatch ==
    (UndoneOnce /\ Len(last_batch.returned) >= 1) =>
        /\ files.dir = last_batch.dir_before
        /\ rename_log = last_batch.log_before

(***************************************************************************)
(* C29: rename/undo round trip.  After any sequence of rename calls        *)
(* followed by undo_last_rename_batch calls until the rename log is empty, *)
(* every file of the directory is back under the name it had at the start; *)
(* and at no point of the sequence is a file overwritten or lost: the      *)
(* directory holds the files it held at the start, each under one name.    *)
(***************************************************************************)
FilesOf(dir) == {dir[name] : name \in DOMAIN dir}

C29_RenameUndoRoundTrip ==
    /\ FilesOf(files.dir) = FilesOf(start_files.dir)
    /\ Cardinality(DOMAIN files.dir) = Cardinality(DOMAIN start_files.dir)
    /\ rename_log = <<>> => files.dir = start_files.dir

C29_Witness ==
    /\ pc = "undoing"
    /\ rename_log = <<>>
    /\ last_batch.renames = 2
    /\ last_batch.undone >= 3
    /\ Len(last_batch.returned) >= 2
    /\ files.dir = start_files.dir
    /\ files.backup # <<>>

====
